---- MODULE Spec2Model ----
(***************************************************************************)
(* A model of the Simple C compiler: the Type value class, the semantic     *)
(* checker's expression rules, the parser's driving of scopes and of code   *)
(* emission, the storage allocator and the register-level code generator.  *)
(*                                                                         *)
(* Each subsystem has its own specification over its own variables; the     *)
(* variables of the other subsystems are held at their idle values.         *)
(***************************************************************************)
EXTENDS Integers, Sequences, FiniteSets, TLC

VARIABLES
    \* Type (Type.cpp): three Type values and the outcome of comparing them
    tyA, tyB, tyC, tyRes,
    \* ... and the outcome of promoting the first of them, once and twice
    tyPro,
    \* Allocator (Type.cpp, allocator part): the activations of allocate(),
    \* innermost last; where the allocation stands; the number of compound
    \* statements met in the body; the offset Function::allocate leaves; and
    \* the largest sum of declared sizes on a chain of nested blocks entered
    aStack, aPhase, aNodes, aOffset, aChainMax,
    \* ... and every Symbol met, with its _offset and the kind of its scope
    aSymbols,
    \* ... the parameters of the function as Function::allocate left them,
    \* with the stores Function::generate writes for them; and the slots load
    \* has spilled registers to while the body was generated
    aFrame, aSpills,
    \* Parser and scopes (parser.cpp, checker.cpp): every Scope created, by
    \* identity; the checker's toplevel and outermost pointers (0 is nullptr);
    \* the active calls of main, globalOrFunction and statement that opened a
    \* scope; the diagnostic counter and the diagnostics of the last step;
    \* standard output; how the run stands; the items of input still to be
    \* read; the scopes closeScope returned, in order; whether the body being
    \* parsed holds a string literal; and the keys of the generator's stringMap
    pScopes, toplevel, outermost, pFrames, numerrors, pDiag, pOut, pStatus,
    pInput, pClosed, pBodyLit, pStringKeys,
    \* ... and the call of a declaration function made by the last step: its
    \* arguments, the scope it acts on, that scope's symbols before the call
    \* and the symbol it returned (its position in that scope)
    pLast,
    \* Checker (checker.cpp, expression rules): the expression built so far and
    \* a second operand; the last rule applied, with the operands it was given,
    \* the node it returned and what it reported; the number of rules applied
    cExpr, cOther, cLast, cRules,
    \* ... and the last statement rule applied, with the operands it was
    \* given, the operands of the statement it built and what it reported
    cStmt,
    \* Generator (generator.cpp): the node each register holds (0 is nullptr);
    \* the expression nodes met in the statement being generated, each with
    \* the size of its type, its _register and its _offset; the nodes whose
    \* generate() has returned and whose parent's has not yet used them; the
    \* && and || nodes whose generate() is under way; the static offset; the
    \* Label counter; the static stringMap; the string operands written so
    \* far; the .asciz lines written; where the generation stands; what the
    \* statement under way must be; the nodes and the functions met so far
    gRegs, gNodes, gStack, gOpen, gOffset, gLabels, stringMap, gOperands,
    gData, gPhase, gExpect, gCount, gFuncs,
    \* ... the lowest _offset given to a local, a parameter or a spilled node
    \* of the function under generation, and the value of the .set line of
    \* the function last generated, once written
    gLow, gSet,
    \* ... the instructions the last step wrote, of the kinds the properties
    \* below are about; the nodes awaiting use whose spill was written where
    \* a jump of an && or || under way passes over it; every Label
    \* constructed so far, with what it was constructed for; and the calls of
    \* For::generate, If::generate and While::generate under way, innermost
    \* last
    gCode, gSkipped, gGiven, gFlow

typeVars == <<tyA, tyB, tyC, tyRes, tyPro>>
allocVars == <<aStack, aPhase, aNodes, aOffset, aChainMax, aSymbols, aFrame,
               aSpills>>
parseVars == <<pScopes, toplevel, outermost, pFrames, numerrors, pDiag, pOut,
               pStatus, pInput, pClosed, pBodyLit, pStringKeys, pLast>>
checkVars == <<cExpr, cOther, cLast, cRules, cStmt>>
genVars == <<gRegs, gNodes, gStack, gOpen, gOffset, gLabels, stringMap,
             gOperands, gData, gPhase, gExpect, gCount, gFuncs, gLow, gSet,
             gCode, gSkipped, gGiven, gFlow>>

\* what the steps of one subsystem leave alone
otherThanType == <<allocVars, parseVars, checkVars, genVars>>
otherThanAlloc == <<typeVars, parseVars, checkVars, genVars>>
otherThanParse == <<typeVars, allocVars, checkVars, genVars>>
otherThanCheck == <<typeVars, allocVars, parseVars, genVars>>
otherThanGen == <<typeVars, allocVars, parseVars, checkVars>>

vars == <<typeVars, allocVars, parseVars, checkVars, genVars>>

----------------------------------------------------------------------------
(* Bounds of the model *)

\* largest number of pointer layers of a declared type
MaxIndirection == 1
\* largest declared array length
MaxLength == 1
\* largest number of parameters of a function type
MaxParams == 1
\* allocator: largest number of parameters of an allocated function
MaxAllocParams == 1
\* allocator: largest number of locals declared in one block
MaxDecls == 1
\* allocator: largest number of Block, While, For and If statements in the
\* body of an allocated function
MaxAllocNodes == 2
\* parser: largest number of declarations, statements and block or function
\* boundaries in the input
MaxInput == 5
\* checker: largest number of rules applied one on the result of another
MaxRules == 1
\* generator: largest number of expression nodes met
MaxGenNodes == 3
\* generator: largest number of functions generated
MaxGenFunctions == 2
\* generator: largest number of arguments of a call
MaxArgs == 7
\* registers: largest number of spills in a sequence of calls of assign, load
\* and getreg
MaxSpills == 2

----------------------------------------------------------------------------
(* machine.h: the target's sizes *)

SIZEOF_CHAR == 1
SIZEOF_INT == 4
SIZEOF_LONG == 8
SIZEOF_PTR == 8
SIZEOF_PARAM == 8
SIZEOF_REG == 8
NUM_PARAM_REGS == 6
STACK_ALIGNMENT == 16

----------------------------------------------------------------------------
(* Type.cpp: the Type value class.  A Type is a record with every field of  *)
(* the class; fields a constructor leaves unset are never read by the code  *)
(* and are held at a fixed filler here.                                     *)

\* the parameter list pointer of a function type: nullptr, or a vector
NoParams == [present |-> FALSE, list |-> <<>>]
Params(seq) == [present |-> TRUE, list |-> seq]

\* Type::Type()
ErrorType == [decl |-> "ERROR", spec |-> "NONE", ind |-> 0, len |-> 0, params |-> NoParams]
\* Type::Type(int specifier, unsigned indirection)
Scalar(s, i) == [decl |-> "SCALAR", spec |-> s, ind |-> i, len |-> 0, params |-> NoParams]
\* Type::Type(int specifier, unsigned indirection, unsigned long length)
Array(s, i, n) == [decl |-> "ARRAY", spec |-> s, ind |-> i, len |-> n, params |-> NoParams]
\* Type::Type(int specifier, unsigned indirection, Parameters *parameters)
Function(s, i, p) == [decl |-> "FUNCTION", spec |-> s, ind |-> i, len |-> 0, params |-> p]

\* vector<Type>::operator== on two parameter lists; parameters are scalars,
\* so the element comparison is the scalar case of Type::operator==
ParamListEq(p, q) ==
    /\ Len(p) = Len(q)
    /\ \A k \in 1..Len(p) :
          /\ p[k].decl = q[k].decl
          /\ p[k].spec = q[k].spec
          /\ p[k].ind = q[k].ind

\* a comparison that looks for an absent list on the left side only
TypeEqOneSided(a, b) ==
    IF a.decl # b.decl THEN FALSE
    ELSE IF a.decl = "ERROR" THEN TRUE
    ELSE IF a.spec # b.spec THEN FALSE
    ELSE IF a.ind # b.ind THEN FALSE
    ELSE IF a.decl = "SCALAR" THEN TRUE
    ELSE IF a.decl = "ARRAY" THEN a.len = b.len
    ELSE IF ~a.params.present THEN TRUE
    ELSE b.params.present /\ ParamListEq(a.params.list, b.params.list)

\* Type::operator==
TypeEq(a, b) ==
    IF a.decl # b.decl THEN FALSE
    ELSE IF a.decl = "ERROR" THEN TRUE
    ELSE IF a.spec # b.spec THEN FALSE
    ELSE IF a.ind # b.ind THEN FALSE
    ELSE IF a.decl = "SCALAR" THEN TRUE
    ELSE IF a.decl = "ARRAY" THEN a.len = b.len
    ELSE IF ~a.params.present \/ ~b.params.present THEN TRUE
    ELSE ParamListEq(a.params.list, b.params.list)

\* Type::operator!=
TypeNeq(a, b) == ~TypeEq(a, b)

isArray(t) == t.decl = "ARRAY"
isScalar(t) == t.decl = "SCALAR"
isFunction(t) == t.decl = "FUNCTION"
isError(t) == t.decl = "ERROR"

\* Type::isPointer
isPointer(t) == (t.decl = "SCALAR" /\ t.ind > 0) \/ t.decl = "ARRAY"
\* Type::isNumeric
isNumeric(t) == t.decl = "SCALAR" /\ t.ind = 0 /\ t.spec # "VOID"
\* Type::isPredicate
isPredicate(t) == isNumeric(t) \/ isPointer(t)

\* Type::promote with an array decaying to its element type
TypePromoteElement(t) ==
    IF t.decl = "SCALAR" /\ t.ind = 0 /\ t.spec = "CHAR" THEN Scalar("INT", 0)
    ELSE IF t.decl = "ARRAY" THEN Scalar(t.spec, t.ind)
    ELSE t

\* Type::promote
TypePromote(t) ==
    IF t.decl = "SCALAR" /\ t.ind = 0 /\ t.spec = "CHAR" THEN Scalar("INT", 0)
    ELSE IF t.decl = "ARRAY" THEN Scalar(t.spec, t.ind + 1)
    ELSE t

\* Type::deref (asserted on a scalar with indirection > 0)
TypeDeref(t) == Scalar(t.spec, t.ind - 1)

\* static Type voidptr(VOID, 1)
voidptr == Scalar("VOID", 1)

\* Type::isCompatibleWith
isCompatibleWith(t, that) ==
    IF isNumeric(t) /\ isNumeric(that) THEN TRUE
    ELSE IF ~isPointer(t) \/ ~isPointer(that) THEN FALSE
    ELSE \/ TypeEq(TypePromote(t), TypePromote(that))
         \/ TypeEq(t, voidptr)
         \/ TypeEq(that, voidptr)

\* Type::size (asserted on a type that is neither a function nor the error type)
TypeSize(t) ==
    LET count == IF t.decl = "ARRAY" THEN t.len ELSE 1
    IN  IF t.ind > 0 THEN count * SIZEOF_PTR
        ELSE IF t.spec = "CHAR" THEN count * SIZEOF_CHAR
        ELSE IF t.spec = "INT" THEN count * SIZEOF_INT
        ELSE IF t.spec = "LONG" THEN count * SIZEOF_LONG
        ELSE 0

\* the assertion at the head of Type::size
SizeAsserts(t) == t.decl # "FUNCTION" /\ t.decl # "ERROR"

----------------------------------------------------------------------------
(* The Type values the specifications draw from *)

Specifiers == {"INT", "CHAR", "LONG", "VOID"}

ScalarTypes == {Scalar(s, i) : s \in Specifiers, i \in 0..MaxIndirection}

ArrayTypes == {Array(s, i, n) : s \in Specifiers, i \in 0..MaxIndirection, n \in 1..MaxLength}

\* parameter types as the parser builds them: Type(typespec, indirection)
ParamTypes == {Scalar("INT", 0), Scalar("CHAR", 0)}

RECURSIVE ParamLists(_)
ParamLists(n) ==
    IF n = 0 THEN {<<>>}
    ELSE ParamLists(n - 1) \cup
         {Append(p, t) : p \in {q \in ParamLists(n - 1) : Len(q) = n - 1}, t \in ParamTypes}

FunctionTypes ==
    {Function(s, i, p) : s \in {"INT", "CHAR"}, i \in 0..MaxIndirection,
                         p \in {NoParams} \cup {Params(l) : l \in ParamLists(MaxParams)}}

TypeUniverse == ScalarTypes \cup ArrayTypes \cup FunctionTypes \cup {ErrorType}

----------------------------------------------------------------------------
(* Idle values of the subsystems *)

NoResult == [done |-> FALSE, ab |-> FALSE, ba |-> FALSE, bc |-> FALSE, ac |-> FALSE, aa |-> FALSE]

NoPromotion == [done |-> FALSE, once |-> ErrorType, twice |-> ErrorType]

TypeIdle ==
    /\ tyA = ErrorType /\ tyB = ErrorType /\ tyC = ErrorType
    /\ tyRes = NoResult /\ tyPro = NoPromotion

\* no function allocated
NoFrame == [symbols |-> <<>>, prologue |-> <<>>]

AllocIdle ==
    /\ aStack = <<>> /\ aPhase = "idle" /\ aNodes = 0
    /\ aOffset = 0 /\ aChainMax = 0 /\ aSymbols = {}
    /\ aFrame = NoFrame /\ aSpills = <<>>

\* no declaration function called
NoCall ==
    [op |-> "none", name |-> "", type |-> ErrorType, target |-> 0,
     before |-> <<>>, symbol |-> 0, lookahead |-> "none"]

ParseIdle ==
    /\ pScopes = <<>> /\ toplevel = 0 /\ outermost = 0 /\ pFrames = <<>>
    /\ numerrors = 0 /\ pDiag = <<>> /\ pOut = <<>> /\ pStatus = "idle"
    /\ pInput = 0 /\ pClosed = <<>> /\ pBodyLit = FALSE /\ pStringKeys = {}
    /\ pLast = NoCall

\* an expression node of the tree: its class, its type, the value of a
\* Number, the name of an Identifier, a String or a Call, and its operands
Node(kind, type, value, name, kids) ==
    [kind |-> kind, type |-> type, value |-> value, name |-> name, kids |-> kids]

NoRule ==
    [rule |-> "none", operands |-> <<>>, callee |-> ErrorType,
     expr |-> Node("Number", ErrorType, 0, "", <<>>), diag |-> <<>>,
     aborted |-> FALSE, paren |-> {}]

NoStatement ==
    [rule |-> "none", operands |-> <<>>, built |-> <<>>, diag |-> <<>>,
     paren |-> {}]

CheckIdle ==
    /\ cExpr = NoRule.expr /\ cOther = NoRule.expr /\ cLast = NoRule /\ cRules = 0
    /\ cStmt = NoStatement

\* the register pool, in the order getreg() searches it, and the registers
\* that carry the first arguments of a call
registers == <<"r11", "r10", "r9", "r8", "rcx", "rdx", "rsi", "rdi", "rax">>
parameters == <<"rdi", "rsi", "rdx", "rcx", "r8", "r9">>
RegisterNames == {registers[i] : i \in 1..Len(registers)}
\* the null Register pointer
NoReg == "none"

\* an instruction written: its opcode, the suffix of the opcode, the
\* register it names and the number it names
Ins(op, suf, reg, val) == [op |-> op, suf |-> suf, reg |-> reg, val |-> val]

\* suffix(size): the suffix of an opcode on an operand of this size
suffix(size) == IF size = 1 THEN "b" ELSE IF size = SIZEOF_INT THEN "l" ELSE "q"

GenIdle ==
    /\ gRegs = [r \in RegisterNames |-> 0] /\ gNodes = <<>> /\ gStack = <<>>
    /\ gOpen = <<>> /\ gOffset = 0 /\ gLabels = 0 /\ stringMap = <<>>
    /\ gOperands = <<>> /\ gData = <<>> /\ gPhase = "idle" /\ gExpect = "any"
    /\ gCount = 0 /\ gFuncs = 0 /\ gLow = 0 /\ gSet = <<>>
    /\ gCode = <<>> /\ gSkipped = {} /\ gGiven = <<>> /\ gFlow = <<>>

----------------------------------------------------------------------------
(* SpecType: Type values are drawn and compared *)

TypeInit ==
    /\ tyA \in TypeUniverse
    /\ tyB \in TypeUniverse
    /\ tyC \in TypeUniverse
    /\ tyRes = NoResult
    /\ tyPro = NoPromotion
    /\ AllocIdle /\ ParseIdle /\ CheckIdle /\ GenIdle

\* the three values are compared pairwise with Type::operator==
Compare ==
    /\ ~tyRes.done
    /\ tyRes' = [done |-> TRUE,
                 ab |-> TypeEq(tyA, tyB), ba |-> TypeEq(tyB, tyA),
                 bc |-> TypeEq(tyB, tyC), ac |-> TypeEq(tyA, tyC),
                 aa |-> TypeEq(tyA, tyA)]
    /\ UNCHANGED <<tyA, tyB, tyC, tyPro>>
    /\ UNCHANGED otherThanType

\* the first value is promoted with Type::promote, and the result again
Promote ==
    /\ ~tyPro.done
    /\ tyPro' = [done |-> TRUE, once |-> TypePromote(tyA),
                 twice |-> TypePromote(TypePromote(tyA))]
    /\ UNCHANGED <<tyA, tyB, tyC, tyRes>>
    /\ UNCHANGED otherThanType

TypeNext == Compare \/ Promote

SpecType == TypeInit /\ [][TypeNext]_vars

----------------------------------------------------------------------------
(* C10 *)

\* C10 as stated: Type equality is transitive over all Types, function types
\* with an absent parameter list included: A == B and B == C imply A == C.
C10_TransitiveAll ==
    tyRes.done => ((tyRes.ab /\ tyRes.bc) => tyRes.ac)

AbsentParams(t) == t.decl = "FUNCTION" /\ ~t.params.present

\* C10 amended: Type equality is reflexive and symmetric over all Types, and
\* A == B and B == C imply A == C whenever the middle type B is not a
\* function type with an absent parameter list.
C10_EquivalenceExceptAbsent ==
    tyRes.done =>
        /\ tyRes.aa
        /\ tyRes.ab = tyRes.ba
        /\ (~AbsentParams(tyB) /\ tyRes.ab /\ tyRes.bc) => tyRes.ac

\* a function type with an absent list equals one with a present list, which
\* equals a third, and the first equals the third
C10_Witness ==
    /\ tyRes.done
    /\ tyA.decl = "FUNCTION" /\ tyB.decl = "FUNCTION" /\ tyC.decl = "FUNCTION"
    /\ ~tyA.params.present /\ tyB.params.present /\ tyC.params.present
    /\ tyRes.ab /\ tyRes.bc /\ tyRes.ac

----------------------------------------------------------------------------
(* C11 *)

\* C11: promotion is idempotent, promote(promote(T)) == promote(T) for every
\* Type T; char becomes int, an array becomes the scalar pointer with one more
\* level of indirection, and every other Type is unchanged
C11_PromoteIdempotent ==
    tyPro.done =>
        /\ TypeEq(tyPro.twice, tyPro.once)
        /\ (tyA = Scalar("CHAR", 0)) => tyPro.once = Scalar("INT", 0)
        /\ (tyA.decl = "ARRAY") => tyPro.once = Scalar(tyA.spec, tyA.ind + 1)
        /\ (tyA # Scalar("CHAR", 0) /\ tyA.decl # "ARRAY") => tyPro.once = tyA

\* an array of char has been promoted, once and twice
C11_Witness ==
    /\ tyPro.done
    /\ tyA.decl = "ARRAY" /\ tyA.spec = "CHAR" /\ tyA.ind = 0
    /\ tyPro.once = Scalar("CHAR", 1)

----------------------------------------------------------------------------
(* Type.cpp, allocator part: Function::allocate, Block::allocate,           *)
(* While::allocate, For::allocate, If::allocate.  aStack holds the          *)
(* activations of allocate(); the statement each activation descends into   *)
(* is drawn when the descent happens.                                       *)

Min(a, b) == IF a < b THEN a ELSE b
Max(a, b) == IF a > b THEN a ELSE b

\* a Symbol: its type and its _offset, 0 when constructed
Symbol(t) == [type |-> t, offset |-> 0]
\* a Symbol, with the kind of scope it was declared in
Scoped(sym, scope) == [type |-> sym.type, offset |-> sym.offset, scope |-> scope]
Range(seq) == {seq[k] : k \in 1..Len(seq)}
\* the types of the globals the program declares
GlobalTypes == {Scalar("INT", 0), Array("CHAR", 0, 0)}

\* the types of the locals and of the parameters the allocator is run on
LocalTypes == {Array("INT", 0, MaxLength + 1), Array("INT", 0, 0)}
AllocParamTypes == {Scalar("CHAR", 0), Scalar("LONG", 0)}

RECURSIVE SeqsUpTo(_, _)
SeqsUpTo(S, n) ==
    IF n = 0 THEN {<<>>}
    ELSE SeqsUpTo(S, n - 1) \cup
         {Append(p, t) : p \in {q \in SeqsUpTo(S, n - 1) : Len(q) = n - 1}, t \in S}

RECURSIVE SumSizes(_)
SumSizes(types) ==
    IF types = <<>> THEN 0 ELSE TypeSize(Head(types)) + SumSizes(Tail(types))

\* a Block::allocate that gives its symbols their offsets and keeps its own
RECURSIVE AllocSymbolsKept(_, _, _)
AllocSymbolsKept(syms, k, off) ==
    IF k > Len(syms) THEN [syms |-> syms, off |-> off]
    ELSE IF syms[k].offset = 0
         THEN AllocSymbolsKept([syms EXCEPT ![k].offset = off - TypeSize(syms[k].type)],
                               k + 1, off)
         ELSE AllocSymbolsKept(syms, k + 1, off)

\* Block::allocate, the loop over the block's symbols: each symbol whose
\* offset is still 0 is given the next lower offset
RECURSIVE AllocSymbols(_, _, _)
AllocSymbols(syms, k, off) ==
    IF k > Len(syms) THEN [syms |-> syms, off |-> off]
    ELSE IF syms[k].offset = 0
         THEN LET o == off - TypeSize(syms[k].type)
              IN  AllocSymbols([syms EXCEPT ![k].offset = o], k + 1, o)
         ELSE AllocSymbols(syms, k + 1, off)

\* Function::allocate, first loop: the parameters past the register-passed
\* ones get increasing offsets from the given offset
RECURSIVE AllocStackParams(_, _, _, _)
AllocStackParams(syms, n, k, off) ==
    IF k > n THEN syms
    ELSE AllocStackParams([syms EXCEPT ![k].offset = off], n, k + 1, off + SIZEOF_PARAM)

\* Function::allocate giving every register-passed parameter a slot of the
\* size of a stack-passed one
RECURSIVE AllocRegParamsWide(_, _, _, _)
AllocRegParamsWide(syms, n, k, off) ==
    IF k > NUM_PARAM_REGS \/ k > n THEN [syms |-> syms, off |-> off]
    ELSE LET o == off - SIZEOF_PARAM
         IN  AllocRegParamsWide([syms EXCEPT ![k].offset = o], n, k + 1, o)

\* Function::allocate, second loop: the register-passed parameters get
\* decreasing offsets from 0, each by the size of its promoted type
RECURSIVE AllocRegParams(_, _, _, _)
AllocRegParams(syms, n, k, off) ==
    IF k > NUM_PARAM_REGS \/ k > n THEN [syms |-> syms, off |-> off]
    ELSE LET o == off - TypeSize(TypePromote(syms[k].type))
         IN  AllocRegParams([syms EXCEPT ![k].offset = o], n, k + 1, o)

\* a block that keeps the offset of its last statement
BlockAfterStmtLast(off, temp) == temp

\* Block::allocate: offset = min(offset, temp) after each statement
BlockAfterStmt(off, temp) == Min(off, temp)

\* If::allocate: offset = min(offset, temp) after the else statement
IfAfterElse(off, temp) == Min(off, temp)

\* an activation of allocate(): the statement kind, the value of its offset
\* reference, its local saved, where it stands, the symbols of its scope,
\* and the declared sizes summed along its chain
Activation(kind, off, phase, syms, hasElse, chain) ==
    [kind |-> kind, off |-> off, saved |-> off, phase |-> phase,
     syms |-> syms, hasElse |-> hasElse, chain |-> chain]

\* Block::allocate up to its loop over the statements
EnterBlock(syms, off, chain) ==
    LET r == AllocSymbols(syms, 1, off)
    IN  Activation("Block", r.off, "stmts", r.syms, FALSE, chain)

ATop == aStack[Len(aStack)]

\* the activation is about to call allocate() on a statement of its own
ExpectsStmt(f) ==
    \/ f.kind = "Block"
    \/ f.kind \in {"While", "For"} /\ f.phase = "body"
    \/ f.kind = "If" /\ f.phase \in {"then", "else"}

\* the offset the activation hands to that statement: temp (= saved) in a
\* block and in the else branch, its own reference otherwise
StmtArg(f) ==
    IF f.kind = "Block" THEN f.saved
    ELSE IF f.kind = "If" /\ f.phase = "else" THEN f.saved
    ELSE f.off

\* the activation after that statement's allocate() returned with offset r
AfterStmt(f, r) ==
    IF f.kind = "Block"
    THEN [f EXCEPT !.off = BlockAfterStmt(f.off, r)]
    ELSE IF f.kind \in {"While", "For"}
    THEN [f EXCEPT !.off = r, !.phase = "done"]
    ELSE IF f.phase = "then"
    THEN [f EXCEPT !.off = r, !.phase = IF f.hasElse THEN "else" ELSE "done"]
    ELSE [f EXCEPT !.off = IfAfterElse(f.off, r), !.phase = "done"]

\* the activation has no statement left to descend into (a block may end
\* after any number of statements)
Finished(f) ==
    \/ f.kind = "Block"
    \/ f.kind \in {"While", "For", "If"} /\ f.phase = "done"

ReplaceTop(stack, f) == [stack EXCEPT ![Len(stack)] = f]

AllocInit ==
    /\ aStack = <<>> /\ aPhase = "idle" /\ aNodes = 0
    /\ aOffset = 2 * SIZEOF_REG /\ aChainMax = 0
    /\ aFrame = NoFrame /\ aSpills = <<>>
    /\ aSymbols = {Scoped(Symbol(t), "global") : t \in GlobalTypes}
    /\ TypeIdle /\ ParseIdle /\ CheckIdle /\ GenIdle

\* Function::generate, the loop after the prologue: each register-passed
\* parameter is stored from its register, named by the size of the symbol's
\* type, to the symbol's _offset
Function_spill(syms, n) ==
    [i \in 1..Min(n, NUM_PARAM_REGS) |->
        Ins("mov", suffix(TypeSize(syms[i].type)), parameters[i], syms[i].offset)]

\* Function::allocate, called by Function::generate with offset = 2 *
\* SIZEOF_REG, down to the loop over the statements of the body
AllocateFunction(params, locals) ==
    /\ UNCHANGED otherThanAlloc
    /\ aPhase = "idle"
    /\ LET n == Len(params)
           syms == [k \in 1..(n + Len(locals)) |->
                       IF k <= n THEN Symbol(params[k]) ELSE Symbol(locals[k - n])]
           s1 == AllocStackParams(syms, n, NUM_PARAM_REGS + 1, aOffset)
           r == AllocRegParams(s1, n, 1, 0)
           chain == SumSizes(SubSeq(params, 1, Min(n, NUM_PARAM_REGS))) + SumSizes(locals)
       IN  /\ aStack' = <<Activation("Function", r.off, "body", <<>>, FALSE, 0),
                          EnterBlock(r.syms, r.off, chain)>>
           /\ aChainMax' = chain
           /\ aFrame' = [symbols |-> SubSeq(r.syms, 1, n),
                         prologue |-> Function_spill(r.syms, n)]
           /\ aSymbols' = aSymbols \cup
                  {Scoped(EnterBlock(r.syms, r.off, chain).syms[k],
                          IF k <= n THEN "parameter" ELSE "local") :
                      k \in 1..Len(r.syms)}
    /\ aPhase' = "running"
    /\ UNCHANGED <<aOffset, aNodes, aSpills>>

\* Statement::allocate of a statement that is no Block, While, For or If:
\* nothing is allocated
AllocateOther ==
    /\ UNCHANGED otherThanAlloc
    /\ aPhase = "running"
    /\ ExpectsStmt(ATop)
    /\ aStack' = ReplaceTop(aStack, AfterStmt(ATop, StmtArg(ATop)))
    /\ UNCHANGED <<aPhase, aNodes, aOffset, aChainMax, aSymbols, aFrame, aSpills>>

\* Block::allocate, down to the loop over its statements
AllocateBlock(decls) ==
    /\ UNCHANGED otherThanAlloc
    /\ aPhase = "running"
    /\ ExpectsStmt(ATop)
    /\ aNodes < MaxAllocNodes
    /\ LET chain == ATop.chain + SumSizes(decls)
       IN  /\ aStack' = Append(aStack,
                   EnterBlock([k \in 1..Len(decls) |-> Symbol(decls[k])], StmtArg(ATop), chain))
           /\ aChainMax' = Max(aChainMax, chain)
           /\ aSymbols' = aSymbols \cup
                  {Scoped(sym, "local") : sym \in
                      Range(AllocSymbols([k \in 1..Len(decls) |-> Symbol(decls[k])],
                                         1, StmtArg(ATop)).syms)}
    /\ aNodes' = aNodes + 1
    /\ UNCHANGED <<aPhase, aOffset, aFrame, aSpills>>

\* While::allocate and For::allocate, down to the call on the body
AllocateLoop(kind) ==
    /\ UNCHANGED otherThanAlloc
    /\ aPhase = "running"
    /\ ExpectsStmt(ATop)
    /\ aNodes < MaxAllocNodes
    /\ aStack' = Append(aStack, Activation(kind, StmtArg(ATop), "body", <<>>, FALSE, ATop.chain))
    /\ aNodes' = aNodes + 1
    /\ UNCHANGED <<aPhase, aOffset, aChainMax, aSymbols, aFrame, aSpills>>

\* If::allocate, down to the call on the then statement
AllocateIf(hasElse) ==
    /\ UNCHANGED otherThanAlloc
    /\ aPhase = "running"
    /\ ExpectsStmt(ATop)
    /\ aNodes < MaxAllocNodes
    /\ aStack' = Append(aStack, Activation("If", StmtArg(ATop), "then", <<>>, hasElse, ATop.chain))
    /\ aNodes' = aNodes + 1
    /\ UNCHANGED <<aPhase, aOffset, aChainMax, aSymbols, aFrame, aSpills>>

\* allocate() returns to the activation that called it; Function::allocate
\* returns to Function::generate, leaving the offset in its reference
AllocateReturn ==
    /\ UNCHANGED otherThanAlloc
    /\ aPhase = "running"
    /\ Finished(ATop)
    /\ LET caller == aStack[Len(aStack) - 1]
           rest == SubSeq(aStack, 1, Len(aStack) - 1)
       IN  IF caller.kind = "Function"
           THEN /\ aStack' = <<>>
                /\ aPhase' = "done"
                /\ aOffset' = ATop.off
           ELSE /\ aStack' = ReplaceTop(rest, AfterStmt(caller, ATop.off))
                /\ UNCHANGED <<aPhase, aOffset>>
    /\ UNCHANGED <<aNodes, aChainMax, aSymbols, aFrame, aSpills>>

\* load, while the body is generated: the register's node, of this size,
\* is given the next lower offset and stored there
Spill(size) ==
    /\ UNCHANGED otherThanAlloc
    /\ aPhase = "done"
    /\ Len(aSpills) < MaxSpills
    /\ aOffset' = aOffset - size
    /\ aSpills' = Append(aSpills, [offset |-> aOffset', size |-> size])
    /\ UNCHANGED <<aStack, aPhase, aNodes, aChainMax, aSymbols, aFrame>>

\* the parameter lists the allocator is run on: every short list, and the
\* lists just long enough to have a parameter passed on the stack
AllocParamLists ==
    SeqsUpTo(AllocParamTypes, MaxAllocParams)
        \cup {[k \in 1..(NUM_PARAM_REGS + 1) |-> t] : t \in AllocParamTypes}

AllocNext ==
    \/ \E params \in AllocParamLists,
          locals \in SeqsUpTo(LocalTypes, MaxDecls) : AllocateFunction(params, locals)
    \/ AllocateOther
    \/ \E decls \in SeqsUpTo(LocalTypes, MaxDecls) : AllocateBlock(decls)
    \/ \E kind \in {"While", "For"} : AllocateLoop(kind)
    \/ \E hasElse \in BOOLEAN : AllocateIf(hasElse)
    \/ AllocateReturn
    \/ \E size \in {SIZEOF_INT, SIZEOF_LONG} : Spill(size)

SpecAlloc == AllocInit /\ [][AllocNext]_vars

----------------------------------------------------------------------------
(* C8 *)

\* C8: when Function::allocate returns, the frame size it computed (the
\* negated offset) is at least the sizes of the register-passed parameters
\* plus the sizes of all locals declared on any one chain of nested blocks.
C8_FrameCoversChains ==
    aPhase = "done" => -aOffset >= aChainMax

\* the allocation of a function with nested compound statements finished
\* with a frame exactly as large as its largest chain
C8_Witness ==
    /\ aPhase = "done"
    /\ aNodes = MaxAllocNodes
    /\ aChainMax > 0
    /\ -aOffset = aChainMax

----------------------------------------------------------------------------
(* C12 *)

\* C12: offset zero means global: once a function's storage is allocated,
\* each of its parameters and each local of its body and of its nested blocks,
\* of whatever type and array length, has a nonzero _offset, and each symbol
\* of the outermost scope has _offset 0
C12_OffsetZeroIffGlobal ==
    \A sym \in aSymbols : (sym.offset = 0) <=> (sym.scope = "global")

----------------------------------------------------------------------------
(* Scope and Symbol, and the checker's scope and declaration functions      *)
(* (checker.cpp).  A Scope is known by its position in pScopes; 0 stands    *)
(* for nullptr.                                                             *)

NoName == ""
Names == {"x", "f"}

\* new Symbol(name, type)
NewSymbol(name, type) == [name |-> name, type |-> type]

\* new Scope(enclosing)
NewScope(enclosing) == [enclosing |-> enclosing, symbols |-> <<>>]

\* a Scope whose enclosing scope is itself
EnclosingSelf(scopes, id) == id

\* Scope::enclosing
Enclosing(scopes, id) == scopes[id].enclosing

\* Scope::find: the first symbol of the scope with the name (its position), or
\* nullptr (0)
ScopeFind(symbols, name) ==
    LET hits == {i \in 1..Len(symbols) : symbols[i].name = name}
    IN  IF hits = {} THEN 0 ELSE CHOOSE i \in hits : \A j \in hits : i <= j

\* Scope::lookup: find in the scope, then in the enclosing scopes
RECURSIVE ScopeLookup(_, _, _)
ScopeLookup(scopes, id, name) ==
    IF id = 0 THEN [scope |-> 0, index |-> 0]
    ELSE IF ScopeFind(scopes[id].symbols, name) # 0
         THEN [scope |-> id, index |-> ScopeFind(scopes[id].symbols, name)]
         ELSE ScopeLookup(scopes, scopes[id].enclosing, name)

\* Scope::insert
ScopeInsert(scopes, id, symbol) ==
    [scopes EXCEPT ![id].symbols = Append(@, symbol)]

\* Scope::remove
ScopeRemove(scopes, id, name) ==
    [scopes EXCEPT ![id].symbols = SelectSeq(@, LAMBDA sym : sym.name # name)]

\* report: one line on standard error, and the counter goes up by one
report(count, diag) == count + Len(diag)

\* openScope
openScope(scopes, top, outer) ==
    [scopes |-> Append(scopes, NewScope(top)),
     toplevel |-> Len(scopes) + 1,
     outermost |-> IF outer = 0 THEN Len(scopes) + 1 ELSE outer]

\* closeScope, called with a scope open
closeScope(scopes, top) ==
    [old |-> top, toplevel |-> Enclosing(scopes, top)]

\* a declareVariable that inserts the symbol it is given in every case
declareVariableAgain(scopes, top, outer, name, type) ==
    LET found == ScopeFind(scopes[top].symbols, name)
    IN  [scopes |-> ScopeInsert(scopes, top, NewSymbol(name, type)),
         symbol |-> Len(scopes[top].symbols) + 1,
         diag |-> IF found = 0
                  THEN IF type.spec = "VOID" /\ type.ind = 0
                       THEN <<"void_object">> ELSE <<>>
                  ELSE IF outer # top THEN <<"redeclared">>
                  ELSE IF TypeNeq(type, scopes[top].symbols[found].type)
                  THEN <<"conflicting">> ELSE <<>>]

\* declareVariable: the scopes it leaves, the symbol it returns (its
\* position in the current scope) and what it reports
declareVariable(scopes, top, outer, name, type) ==
    LET found == ScopeFind(scopes[top].symbols, name)
    IN  IF found = 0
        THEN [scopes |-> ScopeInsert(scopes, top, NewSymbol(name, type)),
              symbol |-> Len(scopes[top].symbols) + 1,
              diag |-> IF type.spec = "VOID" /\ type.ind = 0
                       THEN <<"void_object">> ELSE <<>>]
        ELSE IF outer # top
        THEN [scopes |-> scopes, symbol |-> found, diag |-> <<"redeclared">>]
        ELSE IF TypeNeq(type, scopes[top].symbols[found].type)
        THEN [scopes |-> scopes, symbol |-> found, diag |-> <<"conflicting">>]
        ELSE [scopes |-> scopes, symbol |-> found, diag |-> <<>>]

\* declareFunction
declareFunction(scopes, outer, name, type) ==
    LET found == ScopeFind(scopes[outer].symbols, name)
    IN  IF found = 0
        THEN [scopes |-> ScopeInsert(scopes, outer, NewSymbol(name, type)),
              symbol |-> Len(scopes[outer].symbols) + 1,
              diag |-> <<>>]
        ELSE IF TypeNeq(type, scopes[outer].symbols[found].type)
        THEN [scopes |-> scopes, symbol |-> found, diag |-> <<"conflicting">>]
        ELSE [scopes |-> scopes, symbol |-> found, diag |-> <<>>]

\* a defineFunction that leaves the symbol found in the scope
defineFunctionBeside(scopes, outer, name, type) ==
    LET found == ScopeFind(scopes[outer].symbols, name)
        old == scopes[outer].symbols[found].type
    IN  [scopes |-> ScopeInsert(scopes, outer, NewSymbol(name, type)),
         symbol |-> Len(scopes[outer].symbols) + 1,
         diag |-> IF found = 0 THEN <<>>
                  ELSE IF isFunction(old) /\ old.params.present THEN <<"redefined">>
                  ELSE IF TypeNeq(type, old) THEN <<"conflicting">>
                  ELSE <<>>]

\* defineFunction: the scopes it leaves, the symbol it returns (its position
\* in the outermost scope) and what it reports
defineFunction(scopes, outer, name, type) ==
    LET found == ScopeFind(scopes[outer].symbols, name)
        old == scopes[outer].symbols[found].type
        diag == IF found = 0 THEN <<>>
                ELSE IF isFunction(old) /\ old.params.present THEN <<"redefined">>
                ELSE IF TypeNeq(type, old) THEN <<"conflicting">>
                ELSE <<>>
        removed == IF found = 0 THEN scopes ELSE ScopeRemove(scopes, outer, name)
    IN  [scopes |-> ScopeInsert(removed, outer, NewSymbol(name, type)),
         symbol |-> Len(removed[outer].symbols) + 1,
         diag |-> diag]

\* checkIdentifier
checkIdentifier(scopes, top, name) ==
    IF ScopeLookup(scopes, top, name).scope = 0
    THEN [scopes |-> ScopeInsert(scopes, top, NewSymbol(name, ErrorType)),
          symbol |-> [scope |-> top, index |-> Len(scopes[top].symbols) + 1],
          diag |-> <<"undeclared">>]
    ELSE [scopes |-> scopes, symbol |-> ScopeLookup(scopes, top, name),
          diag |-> <<>>]

\* parameters (parser.cpp): each parameter is declared in the scope just
\* opened, in order
RECURSIVE declareParameters(_, _, _, _, _)
declareParameters(scopes, top, outer, params, diag) ==
    IF params = <<>> THEN [scopes |-> scopes, diag |-> diag]
    ELSE LET d == declareVariable(scopes, top, outer, Head(params).name, Head(params).type)
         IN  declareParameters(d.scopes, top, outer, Tail(params), diag \o d.diag)

----------------------------------------------------------------------------
(* parser.cpp: main, globalOrFunction and statement, as far as they drive   *)
(* the scopes, the diagnostic counter and the emission of code              *)

\* the declared types of the variables of the input
VarTypes == {Scalar("INT", 0), Scalar("VOID", 0)}
\* the declared type of the functions declared f()
DeclaredFunction == Function("INT", 0, NoParams)
\* the parameter lists of the functions defined
ParamDecls == {<<>>, <<NewSymbol("x", Scalar("INT", 0))>>}
\* the string literal of the input
Literal == "s"

\* an active call of main, globalOrFunction or statement that opened a scope
Frame(kind, scope, name, phase) ==
    [kind |-> kind, scope |-> scope, name |-> name, phase |-> phase]

PTop == pFrames[Len(pFrames)]

\* the call of a declaration function on the scope it acts on
Called(op, name, type, target, symbol) ==
    [op |-> op, name |-> name, type |-> type, target |-> target,
     before |-> pScopes[target].symbols, symbol |-> symbol,
     lookahead |-> "none"]

Reading == pStatus = "run" /\ pInput > 0

\* one line of standard output
Line(op, name, size) == [op |-> op, name |-> name, size |-> size]

ParseInit ==
    /\ pScopes = <<>> /\ toplevel = 0 /\ outermost = 0 /\ pFrames = <<>>
    /\ numerrors = 0 /\ pDiag = <<>> /\ pOut = <<>> /\ pStatus = "start"
    /\ pInput = MaxInput /\ pClosed = <<>> /\ pBodyLit = FALSE
    /\ pStringKeys = {}
    /\ pLast = NoCall
    /\ TypeIdle /\ AllocIdle /\ CheckIdle /\ GenIdle

\* main: openScope() and the first token
MainStart ==
    /\ UNCHANGED otherThanParse
    /\ pStatus = "start"
    /\ LET o == openScope(pScopes, toplevel, outermost)
       IN  /\ pScopes' = o.scopes
           /\ toplevel' = o.toplevel
           /\ outermost' = o.outermost
           /\ pFrames' = <<Frame("main", o.toplevel, NoName, "decls")>>
    /\ pStatus' = "run"
    /\ pLast' = NoCall
    /\ UNCHANGED <<numerrors, pDiag, pOut, pInput, pClosed, pBodyLit, pStringKeys>>

\* globalOrFunction and globalDeclarator: a global variable, or a function
\* declared with ()
GlobalDeclaration(name, type) ==
    /\ UNCHANGED otherThanParse
    /\ Reading
    /\ PTop.kind = "main"
    /\ LET d == IF isFunction(type)
                THEN declareFunction(pScopes, outermost, name, type)
                ELSE declareVariable(pScopes, toplevel, outermost, name, type)
       IN  /\ pScopes' = d.scopes
           /\ numerrors' = report(numerrors, d.diag)
           /\ pDiag' = d.diag
           /\ pLast' = Called(IF isFunction(type) THEN "declareFunction"
                              ELSE "declareVariable",
                              name, type, outermost, d.symbol)
    /\ pInput' = pInput - 1
    /\ UNCHANGED <<toplevel, outermost, pFrames, pOut, pStatus, pClosed,
                   pBodyLit, pStringKeys>>

\* globalOrFunction: a function definition, down to the '{' of its body
BeginFunction(name, params) ==
    /\ UNCHANGED otherThanParse
    /\ Reading
    /\ PTop.kind = "main"
    /\ LET o == openScope(pScopes, toplevel, outermost)
           ps == declareParameters(o.scopes, o.toplevel, o.outermost, params, <<>>)
           type == Function("INT", 0, Params([i \in 1..Len(params) |-> params[i].type]))
           d == defineFunction(ps.scopes, o.outermost, name, type)
       IN  /\ pScopes' = d.scopes
           /\ toplevel' = o.toplevel
           /\ outermost' = o.outermost
           /\ numerrors' = report(numerrors, ps.diag \o d.diag)
           /\ pDiag' = ps.diag \o d.diag
           /\ pFrames' = Append(pFrames, Frame("function", o.toplevel, name, "decls"))
           /\ pLast' = Called("defineFunction", name, type, o.outermost, d.symbol)
    /\ pBodyLit' = FALSE
    /\ pInput' = pInput - 1
    /\ UNCHANGED <<pOut, pStatus, pClosed, pStringKeys>>

\* declarations: a local variable of the function body or of a block
LocalDeclaration(name, type) ==
    /\ UNCHANGED otherThanParse
    /\ Reading
    /\ PTop.kind \in {"function", "block"}
    /\ PTop.phase = "decls"
    /\ LET d == declareVariable(pScopes, toplevel, outermost, name, type)
       IN  /\ pScopes' = d.scopes
           /\ numerrors' = report(numerrors, d.diag)
           /\ pDiag' = d.diag
           /\ pLast' = Called("declareVariable", name, type, toplevel, d.symbol)
    /\ pInput' = pInput - 1
    /\ UNCHANGED <<toplevel, outermost, pFrames, pOut, pStatus, pClosed,
                   pBodyLit, pStringKeys>>

\* statement: '{', openScope()
BeginBlock ==
    /\ UNCHANGED otherThanParse
    /\ Reading
    /\ PTop.kind \in {"function", "block"}
    /\ LET o == openScope(pScopes, toplevel, outermost)
       IN  /\ pScopes' = o.scopes
           /\ toplevel' = o.toplevel
           /\ outermost' = o.outermost
           /\ pFrames' = Append([pFrames EXCEPT ![Len(pFrames)].phase = "stmts"],
                                Frame("block", o.toplevel, NoName, "decls"))
    /\ pDiag' = <<>>
    /\ pLast' = NoCall
    /\ pInput' = pInput - 1
    /\ UNCHANGED <<numerrors, pOut, pStatus, pClosed, pBodyLit, pStringKeys>>

\* statement: a statement other than a block, with the identifier it uses (if
\* any), whether it holds the string literal, and the diagnostics the
\* checker's expression rules report on it
Statement(name, lit, diag) ==
    /\ UNCHANGED otherThanParse
    /\ Reading
    /\ PTop.kind \in {"function", "block"}
    /\ LET d == IF name = NoName THEN [scopes |-> pScopes, diag |-> <<>>]
                ELSE checkIdentifier(pScopes, toplevel, name)
       IN  /\ pScopes' = d.scopes
           /\ numerrors' = report(numerrors, d.diag \o diag)
           /\ pDiag' = d.diag \o diag
    /\ pLast' = NoCall
    /\ pFrames' = [pFrames EXCEPT ![Len(pFrames)].phase = "stmts"]
    /\ pBodyLit' = (pBodyLit \/ lit)
    /\ pInput' = pInput - 1
    /\ UNCHANGED <<toplevel, outermost, pOut, pStatus, pClosed, pStringKeys>>

\* statement: closeScope(), '}'
EndBlock ==
    /\ UNCHANGED otherThanParse
    /\ Reading
    /\ PTop.kind = "block"
    /\ IF toplevel = 0
       THEN /\ pStatus' = "undefined"
            /\ UNCHANGED <<toplevel, pClosed, pFrames, pInput>>
       ELSE /\ LET c == closeScope(pScopes, toplevel)
               IN  /\ toplevel' = c.toplevel
                   /\ pClosed' = Append(pClosed, c.old)
            /\ pFrames' = SubSeq(pFrames, 1, Len(pFrames) - 1)
            /\ pInput' = pInput - 1
            /\ UNCHANGED pStatus
    /\ pDiag' = <<>>
    /\ pLast' = NoCall
    /\ UNCHANGED <<pScopes, outermost, numerrors, pOut, pBodyLit, pStringKeys>>

\* globalOrFunction: closeScope(), '}', and function->generate() if no
\* diagnostic has been reported so far
EndFunction ==
    /\ UNCHANGED otherThanParse
    /\ Reading
    /\ PTop.kind = "function"
    /\ IF toplevel = 0
       THEN /\ pStatus' = "undefined"
            /\ UNCHANGED <<toplevel, pClosed, pFrames, pInput, pOut, pStringKeys>>
       ELSE /\ LET c == closeScope(pScopes, toplevel)
               IN  /\ toplevel' = c.toplevel
                   /\ pClosed' = Append(pClosed, c.old)
            /\ pFrames' = SubSeq(pFrames, 1, Len(pFrames) - 1)
            /\ pInput' = pInput - 1
            /\ IF numerrors = 0
               THEN /\ pOut' = Append(pOut, Line("function", PTop.name, 0))
                    /\ pStringKeys' = IF pBodyLit THEN pStringKeys \cup {Literal}
                                      ELSE pStringKeys
               ELSE UNCHANGED <<pOut, pStringKeys>>
            /\ UNCHANGED pStatus
    /\ pDiag' = <<>>
    /\ pLast' = NoCall
    /\ UNCHANGED <<pScopes, outermost, numerrors, pBodyLit>>

\* directives for the symbols of the scope, the functions too
RECURSIVE CommLinesAll(_)
CommLinesAll(symbols) ==
    IF symbols = <<>> THEN <<>>
    ELSE <<Line(".comm", Head(symbols).name,
                IF isFunction(Head(symbols).type) THEN 0
                ELSE TypeSize(Head(symbols).type))>>
             \o CommLinesAll(Tail(symbols))

\* generateGlobals (generator.cpp): the directives for the symbols of the scope
RECURSIVE CommLines(_)
CommLines(symbols) ==
    IF symbols = <<>> THEN <<>>
    ELSE IF ~isFunction(Head(symbols).type)
         THEN <<Line(".comm", Head(symbols).name, TypeSize(Head(symbols).type))>>
                  \o CommLines(Tail(symbols))
         ELSE CommLines(Tail(symbols))

\* generateGlobals (generator.cpp): one line for each entry of stringMap
RECURSIVE AscizLines(_)
AscizLines(keys) ==
    IF keys = {} THEN <<>>
    ELSE LET k == CHOOSE k \in keys : TRUE
         IN  <<Line(".asciz", k, 0)>> \o AscizLines(keys \ {k})

\* generateGlobals (generator.cpp)
generateGlobals(symbols, keys) ==
    CommLines(symbols) \o <<Line(".data", NoName, 0)>> \o AscizLines(keys)

\* main: the end of the input; generateGlobals(closeScope()) and exit
EndOfInput ==
    /\ UNCHANGED otherThanParse
    /\ pStatus = "run"
    /\ PTop.kind = "main"
    /\ IF toplevel = 0
       THEN /\ pStatus' = "undefined"
            /\ UNCHANGED <<toplevel, pClosed, pFrames, pOut>>
       ELSE /\ LET c == closeScope(pScopes, toplevel)
               IN  /\ toplevel' = c.toplevel
                   /\ pClosed' = Append(pClosed, c.old)
                   /\ pOut' = pOut \o generateGlobals(pScopes[c.old].symbols, pStringKeys)
            /\ pFrames' = <<>>
            /\ pStatus' = "exit0"
    /\ pDiag' = <<>>
    /\ pLast' = NoCall
    /\ UNCHANGED <<pScopes, outermost, numerrors, pInput, pBodyLit, pStringKeys>>

----------------------------------------------------------------------------
(* checker.cpp: the rules for expressions.  Each rule is an operator from    *)
(* its operands to the node it returns and the diagnostics it reports.      *)

integer == Scalar("INT", 0)
character == Scalar("CHAR", 0)
longint == Scalar("LONG", 0)

\* Number(unsigned long): a literal of type long
Number(value) == Node("Number", longint, value, NoName, <<>>)
\* Identifier(symbol): the type is the symbol's
Identifier(name, type) == Node("Identifier", type, 0, name, <<>>)
\* the classes with one operand, and those with two
Unary(kind, expr, type) == Node(kind, type, 0, NoName, <<expr>>)
Binary(kind, left, right, type) == Node(kind, type, 0, NoName, <<left, right>>)

\* Expression::lvalue: a scalar Identifier, or a Dereference
lvalue(expr) ==
    (expr.kind = "Identifier" /\ isScalar(expr.type)) \/ expr.kind = "Dereference"

\* what a rule returns; a rule that fails an assertion returns nothing
Outcome(expr, diag) == [expr |-> expr, diag |-> diag, aborted |-> FALSE]
Abort(expr) == [expr |-> expr, diag |-> <<>>, aborted |-> TRUE]

promote(expr) ==
    IF isArray(expr.type) THEN Unary("Address", expr, TypePromote(expr.type))
    ELSE IF TypeEq(expr.type, character) THEN Unary("Cast", expr, integer)
    ELSE expr

cast(expr, type) ==
    IF expr.kind = "Number" /\ TypeEq(expr.type, integer) /\ TypeEq(type, longint)
    THEN Number(expr.value)
    ELSE Unary("Cast", expr, type)

\* convert with no cast of a numeric operand
convertNot(expr, type) ==
    IF isArray(expr.type) /\ isPointer(type) THEN promote(expr) ELSE expr

convert(expr, type) ==
    LET e == IF isArray(expr.type) /\ isPointer(type) THEN promote(expr) ELSE expr
    IN  IF TypeNeq(e.type, type) /\ isNumeric(e.type) /\ isNumeric(type)
        THEN cast(e, type)
        ELSE e

\* an extend that only promotes
extendNot(expr, type) == promote(expr)

extend(expr, type) ==
    promote(IF /\ TypeNeq(expr.type, type) /\ isNumeric(expr.type) /\ isNumeric(type)
               /\ (TypeEq(expr.type, character) \/ TypeEq(type, longint))
            THEN cast(expr, type)
            ELSE expr)

\* a scale that leaves the operand as it is
scaleNot(expr, size) == expr

scale(expr, size) ==
    IF expr.kind = "Number" THEN Number(expr.value * size)
    ELSE Binary("Multiply", extend(expr, longint), Number(size), longint)

\* checkCall: the loop over the arguments, from argument i on; each argument
\* is promoted (parameter list absent) or converted to its parameter, until
\* one is found invalid
RECURSIVE checkArguments(_, _, _)
checkArguments(args, params, i) ==
    IF i > Len(args) THEN [args |-> args, bad |-> FALSE]
    ELSE LET a == IF params.present THEN convert(args[i], params.list[i])
                  ELSE promote(args[i])
             bad == IF params.present THEN ~isCompatibleWith(a.type, params.list[i])
                    ELSE TypeNeq(a.type, ErrorType) /\ ~isPredicate(a.type)
             done == [args EXCEPT ![i] = a]
         IN  IF bad THEN [args |-> done, bad |-> TRUE]
             ELSE checkArguments(done, params, i + 1)

checkCall(name, t, args) ==
    IF TypeEq(t, ErrorType)
    THEN Outcome(Node("Call", ErrorType, 0, name, args), <<>>)
    ELSE IF ~isFunction(t)
    THEN Outcome(Node("Call", ErrorType, 0, name, args), <<"invalid_function">>)
    ELSE IF t.params.present /\ Len(t.params.list) # Len(args)
    THEN Outcome(Node("Call", Scalar(t.spec, t.ind), 0, name, args),
                 <<"invalid_arguments">>)
    ELSE LET c == checkArguments(args, t.params, 1)
         IN  IF c.bad
             THEN Outcome(Node("Call", ErrorType, 0, name, c.args),
                          <<"invalid_arguments">>)
             ELSE Outcome(Node("Call", Scalar(t.spec, t.ind), 0, name, c.args), <<>>)

checkArray(left, right) ==
    LET l == promote(left)
        t1 == l.type
        t2 == right.type
    IN  IF TypeEq(t1, ErrorType) \/ TypeEq(t2, ErrorType)
        THEN Outcome(Unary("Dereference", Binary("Add", l, right, t1), ErrorType), <<>>)
        ELSE IF isPointer(t1) /\ isNumeric(t2) /\ TypeNeq(t1, voidptr)
        THEN Outcome(Unary("Dereference",
                           Binary("Add", l, scale(right, TypeSize(TypeDeref(t1))), t1),
                           TypeDeref(t1)), <<>>)
        ELSE Outcome(Unary("Dereference", Binary("Add", l, right, t1), ErrorType),
                     <<"invalid_operands">>)

checkNot(expr) ==
    LET e == promote(expr)
    IN  IF TypeEq(e.type, ErrorType) THEN Outcome(Unary("Not", e, ErrorType), <<>>)
        ELSE IF isPredicate(e.type) THEN Outcome(Unary("Not", e, integer), <<>>)
        ELSE Outcome(Unary("Not", e, ErrorType), <<"invalid_operand">>)

checkNegate(expr) ==
    LET e == promote(expr)
    IN  IF TypeEq(e.type, ErrorType) THEN Outcome(Unary("Negate", e, ErrorType), <<>>)
        ELSE IF isNumeric(e.type) THEN Outcome(Unary("Negate", e, e.type), <<>>)
        ELSE Outcome(Unary("Negate", e, ErrorType), <<"invalid_operand">>)

checkDereference(expr) ==
    LET e == promote(expr)
    IN  IF TypeEq(e.type, ErrorType)
        THEN Outcome(Unary("Dereference", e, ErrorType), <<>>)
        ELSE IF isPointer(e.type) /\ TypeNeq(e.type, voidptr)
        THEN Outcome(Unary("Dereference", e, TypeDeref(e.type)), <<>>)
        ELSE Outcome(Unary("Dereference", e, ErrorType), <<"invalid_operand">>)

checkAddress(expr) ==
    IF TypeEq(expr.type, ErrorType) THEN Outcome(Unary("Address", expr, ErrorType), <<>>)
    ELSE IF lvalue(expr)
    THEN Outcome(Unary("Address", expr, Scalar(expr.type.spec, expr.type.ind + 1)), <<>>)
    ELSE Outcome(Unary("Address", expr, ErrorType), <<"invalid_lvalue">>)

checkSizeof(expr) ==
    IF TypeNeq(expr.type, ErrorType) /\ ~isPredicate(expr.type)
    THEN Outcome(Number(0), <<"invalid_operand">>)
    ELSE IF SizeAsserts(expr.type) THEN Outcome(Number(TypeSize(expr.type)), <<>>)
    ELSE Abort(expr)

\* checkMultiplicative, with the node checkMultiply, checkDivide or
\* checkRemainder builds on its result
checkMultiplicative(kind, left, right) ==
    LET l == extend(left, right.type)
        r == extend(right, l.type)
    IN  IF TypeEq(l.type, ErrorType) \/ TypeEq(r.type, ErrorType)
        THEN Outcome(Binary(kind, l, r, ErrorType), <<>>)
        ELSE IF isNumeric(l.type) /\ isNumeric(r.type)
        THEN Outcome(Binary(kind, l, r, l.type), <<>>)
        ELSE Outcome(Binary(kind, l, r, ErrorType), <<"invalid_operands">>)

checkAdd(left, right) ==
    LET t1 == left.type
        t2 == right.type
    IN  IF TypeEq(t1, ErrorType) \/ TypeEq(t2, ErrorType)
        THEN Outcome(Binary("Add", left, right, ErrorType), <<>>)
        ELSE IF isNumeric(t1) /\ isNumeric(t2)
        THEN LET l == extend(left, t2)
                 r == extend(right, l.type)
             IN  Outcome(Binary("Add", l, r, l.type), <<>>)
        ELSE IF isPointer(t1) /\ isNumeric(t2) /\ TypeNeq(t1, voidptr)
        THEN LET l == promote(left)
             IN  Outcome(Binary("Add", l, scale(right, TypeSize(TypeDeref(l.type))),
                                l.type), <<>>)
        ELSE IF isNumeric(t1) /\ isPointer(t2) /\ TypeNeq(t2, voidptr)
        THEN LET r == promote(right)
             IN  Outcome(Binary("Add", scale(left, TypeSize(TypeDeref(r.type))), r,
                                r.type), <<>>)
        ELSE Outcome(Binary("Add", left, right, ErrorType), <<"invalid_operands">>)

\* checkSubtract, lines 662 and 663: the Divide placed on the Subtract node
SubtractResult(expr, t1, t2) ==
    IF isPointer(t1) /\ TypeEq(t1, t2)
    THEN Binary("Divide", expr, Number(TypeSize(TypeDeref(t1))), longint)
    ELSE expr

checkSubtract(left, right) ==
    LET t1 == left.type
        t2 == right.type
    IN  IF TypeEq(t1, ErrorType) \/ TypeEq(t2, ErrorType)
        THEN Outcome(SubtractResult(Binary("Subtract", left, right, ErrorType), t1, t2),
                     <<>>)
        ELSE IF isNumeric(t1) /\ isNumeric(t2)
        THEN LET l == extend(left, t2)
                 r == extend(right, l.type)
             IN  Outcome(SubtractResult(Binary("Subtract", l, r, l.type), l.type, r.type),
                         <<>>)
        ELSE LET l == promote(left)
             IN  IF isPointer(l.type) /\ isNumeric(t2) /\ TypeNeq(l.type, voidptr)
                 THEN Outcome(SubtractResult(
                                  Binary("Subtract", l,
                                         scale(right, TypeSize(TypeDeref(l.type))),
                                         l.type),
                                  l.type, t2), <<>>)
                 ELSE LET r == promote(right)
                      IN  IF /\ isPointer(l.type) /\ TypeEq(l.type, r.type)
                             /\ TypeNeq(l.type, voidptr)
                          THEN Outcome(SubtractResult(
                                           Binary("Subtract", l, r, longint),
                                           l.type, r.type), <<>>)
                          ELSE Outcome(SubtractResult(
                                           Binary("Subtract", l, r, ErrorType),
                                           l.type, r.type), <<"invalid_operands">>)

\* checkRelational, with the node checkLessThan and the like build
checkRelational(kind, left, right) ==
    LET l == extend(left, right.type)
        r == extend(right, l.type)
    IN  IF TypeEq(l.type, ErrorType) \/ TypeEq(r.type, ErrorType)
        THEN Outcome(Binary(kind, l, r, ErrorType), <<>>)
        ELSE IF TypeEq(l.type, r.type) /\ isPredicate(l.type)
        THEN Outcome(Binary(kind, l, r, integer), <<>>)
        ELSE Outcome(Binary(kind, l, r, ErrorType), <<"invalid_operands">>)

\* checkEquality, with the node checkEqual or checkNotEqual builds
checkEquality(kind, left, right) ==
    LET l == extend(left, right.type)
        r == extend(right, l.type)
    IN  IF TypeEq(l.type, ErrorType) \/ TypeEq(r.type, ErrorType)
        THEN Outcome(Binary(kind, l, r, ErrorType), <<>>)
        ELSE IF isCompatibleWith(l.type, r.type)
        THEN Outcome(Binary(kind, l, r, integer), <<>>)
        ELSE Outcome(Binary(kind, l, r, ErrorType), <<"invalid_operands">>)

\* checkLogical, with the node checkLogicalAnd or checkLogicalOr builds
checkLogical(kind, left, right) ==
    LET l == extend(left, right.type)
        r == extend(right, l.type)
    IN  IF TypeEq(l.type, ErrorType) \/ TypeEq(r.type, ErrorType)
        THEN Outcome(Binary(kind, l, r, ErrorType), <<>>)
        ELSE IF isPredicate(l.type) /\ isPredicate(r.type)
        THEN Outcome(Binary(kind, l, r, integer), <<>>)
        ELSE Outcome(Binary(kind, l, r, ErrorType), <<"invalid_operands">>)

\* checkAssignment: the Assignment is built from left and the converted right
checkAssignment(left, right) ==
    LET r == convert(right, left.type)
        t1 == left.type
        t2 == r.type
        diag == IF TypeNeq(t1, ErrorType) /\ TypeNeq(t2, ErrorType)
                THEN IF ~lvalue(left) THEN <<"invalid_lvalue">>
                     ELSE IF ~isCompatibleWith(t1, t2) THEN <<"invalid_operands">>
                     ELSE <<>>
                ELSE <<>>
    IN  [built |-> <<left, r>>, diag |-> diag]

----------------------------------------------------------------------------
(* parser.cpp, continued: the statements the checker's rules can end, the  *)
(* syntax errors, and the specification of the parse                        *)

\* statement: the expression statement `sizeof name;`.  checkIdentifier
\* binds the name if need be and checkSizeof is given the Identifier; a
\* failed assertion ends the program there.
SizeofStatement(name) ==
    /\ UNCHANGED otherThanParse
    /\ Reading
    /\ PTop.kind \in {"function", "block"}
    /\ LET d == checkIdentifier(pScopes, toplevel, name)
           symbol == d.scopes[d.symbol.scope].symbols[d.symbol.index]
           c == checkSizeof(Identifier(name, symbol.type))
       IN  /\ pScopes' = d.scopes
           /\ numerrors' = report(numerrors, d.diag \o c.diag)
           /\ pDiag' = d.diag \o c.diag
           /\ IF c.aborted
              THEN /\ pStatus' = "aborted"
                   /\ UNCHANGED <<pFrames, pInput>>
              ELSE /\ pFrames' = [pFrames EXCEPT ![Len(pFrames)].phase = "stmts"]
                   /\ pInput' = pInput - 1
                   /\ UNCHANGED pStatus
    /\ pLast' = NoCall
    /\ UNCHANGED <<toplevel, outermost, pOut, pClosed, pBodyLit, pStringKeys>>

\* the tokens the lookahead can be when it is not the token required, each
\* with its text
DONE == "DONE"
Lookaheads ==
    {[token |-> DONE, lexbuf |-> ""], [token |-> ";", lexbuf |-> ";"],
     [token |-> "ID", lexbuf |-> "x"]}

\* error
error(count, lookahead, lexbuf) ==
    LET message == IF lookahead = DONE THEN "syntax error at end of file"
                   ELSE "syntax error at '" \o lexbuf \o "'"
    IN  [numerrors |-> report(count, <<message>>), diag |-> <<message>>,
         status |-> "exit1"]

\* match and error: the lookahead is not the token required; the message is
\* reported and the program exits, no token read
SyntaxError(la) ==
    /\ UNCHANGED otherThanParse
    /\ pStatus = "run"
    /\ LET e == error(numerrors, la.token, la.lexbuf)
       IN  /\ numerrors' = e.numerrors
           /\ pDiag' = e.diag
           /\ pStatus' = e.status
    /\ pLast' = [NoCall EXCEPT !.op = "error", !.name = la.lexbuf,
                               !.lookahead = la.token]
    /\ UNCHANGED <<pScopes, toplevel, outermost, pFrames, pOut, pInput, pClosed,
                   pBodyLit, pStringKeys>>

ParseNext ==
    \/ MainStart
    \/ \E name \in Names, type \in VarTypes \cup {DeclaredFunction} :
          GlobalDeclaration(name, type)
    \/ \E name \in Names, params \in ParamDecls : BeginFunction(name, params)
    \/ \E name \in Names, type \in VarTypes : LocalDeclaration(name, type)
    \/ BeginBlock
    \/ \E name \in Names \cup {NoName}, lit \in BOOLEAN,
          diag \in {<<>>, <<"invalid_operands">>} : Statement(name, lit, diag)
    \/ EndBlock
    \/ EndFunction
    \/ \E name \in Names : SizeofStatement(name)
    \/ EndOfInput
    \/ \E la \in Lookaheads : SyntaxError(la)

SpecParse == ParseInit /\ [][ParseNext]_vars

----------------------------------------------------------------------------
(* C1 *)

\* C1: when the parse reaches its end with the diagnostic counter nonzero,
\* nothing at all has been written to standard output: no function code, no
\* .comm directive, no .data section.
C1_NoOutputAfterErrors ==
    (pStatus = "exit0" /\ numerrors # 0) => pOut = <<>>

----------------------------------------------------------------------------
(* C7 *)

\* the scopes opened and not yet returned by closeScope
OpenScopes == {id \in 1..Len(pScopes) : \A k \in 1..Len(pClosed) : pClosed[k] # id}

\* the scopes from toplevel outwards, outermost first
RECURSIVE Chain(_, _)
Chain(scopes, id) ==
    IF id = 0 THEN <<>> ELSE Append(Chain(scopes, scopes[id].enclosing), id)

\* C7: in a parse not ended by a syntax error, closeScope is never called
\* with no scope open and returns no scope twice; the scopes still open are
\* exactly those opened by the calls still active, innermost last, so every
\* closeScope closes the scope its own call opened; when no function
\* definition is being parsed toplevel is the outermost scope; and when the
\* input has ended every scope opened has been closed.
C7_ScopesPaired ==
    pStatus \in {"run", "exit0", "undefined"} =>
        /\ pStatus # "undefined"
        /\ \A j, k \in 1..Len(pClosed) : pClosed[j] = pClosed[k] => j = k
        /\ Chain(pScopes, toplevel) = [i \in 1..Len(pFrames) |-> pFrames[i].scope]
        /\ {pFrames[i].scope : i \in 1..Len(pFrames)} = OpenScopes
        /\ (pStatus = "run" /\ Len(pFrames) = 1) => toplevel = outermost
        /\ pStatus = "exit0" => (toplevel = 0 /\ OpenScopes = {})

\* a parse of a function definition with a block in its body has ended, the
\* block's scope closed first and the outermost scope last
C7_Witness ==
    /\ pStatus = "exit0"
    /\ Len(pScopes) >= 3
    /\ Len(pClosed) = Len(pScopes)
    /\ pClosed[1] > pClosed[2]
    /\ pClosed[Len(pClosed)] = outermost

----------------------------------------------------------------------------
(* C14 *)

\* C14: when declareVariable or declareFunction is called with a name that
\* is already bound in the scope it acts on, the symbols of that scope (and
\* so the type of the symbol bound) are left as they were and the symbol
\* already bound is returned; `redeclaration` is reported in a scope other
\* than the outermost one, `conflicting types` in the outermost scope when
\* the types are unequal, and nothing in the outermost scope when they are
\* equal.
C14_RedeclarationLeavesScope ==
    LET found == ScopeFind(pLast.before, pLast.name)
    IN  (pLast.op \in {"declareVariable", "declareFunction"} /\ found # 0) =>
            /\ pScopes[pLast.target].symbols = pLast.before
            /\ pLast.symbol = found
            /\ pDiag = IF pLast.target # outermost THEN <<"redeclared">>
                       ELSE IF TypeNeq(pLast.type, pLast.before[found].type)
                       THEN <<"conflicting">>
                       ELSE <<>>

\* a local is declared a second time in the body of a function, with another
\* type, after a global of its name was declared twice
C14_Witness ==
    /\ pLast.op = "declareVariable"
    /\ pLast.target # outermost
    /\ ScopeFind(pLast.before, pLast.name) # 0
    /\ TypeNeq(pLast.type, pLast.before[ScopeFind(pLast.before, pLast.name)].type)
    /\ pDiag = <<"redeclared">>
    /\ Len(pScopes[outermost].symbols) = 2

----------------------------------------------------------------------------
(* C16 *)

\* C16: after defineFunction(name, type), whatever the name was bound to in
\* the outermost scope before (nothing, a declaration, a definition or a
\* variable), the outermost scope holds exactly one symbol of that name, it
\* is the symbol returned and its type is the new type; `redefinition` is
\* reported exactly when the name was bound to a function with a parameter
\* list, and otherwise `conflicting types` exactly when it was bound to a
\* type unequal to the new one.
C16_DefineFunctionReplaces ==
    pLast.op = "defineFunction" =>
        LET found == ScopeFind(pLast.before, pLast.name)
            old == pLast.before[found].type
            defined == found # 0 /\ isFunction(old) /\ old.params.present
            now == pScopes[pLast.target].symbols
            diags == {pDiag[i] : i \in 1..Len(pDiag)}
        IN  /\ pLast.target = outermost
            /\ Cardinality({i \in 1..Len(now) : now[i].name = pLast.name}) = 1
            /\ now[pLast.symbol] = NewSymbol(pLast.name, pLast.type)
            /\ "redefined" \in diags <=> defined
            /\ "conflicting" \in diags <=>
                   (found # 0 /\ ~defined /\ TypeNeq(pLast.type, old))

\* a function is defined a second time, with another parameter list, next
\* to another global
C16_Witness ==
    /\ pLast.op = "defineFunction"
    /\ ScopeFind(pLast.before, pLast.name) # 0
    /\ LET old == pLast.before[ScopeFind(pLast.before, pLast.name)].type
       IN  /\ isFunction(old) /\ old.params.present
           /\ old # pLast.type
    /\ Len(pLast.before) = 2
    /\ Len(pScopes[outermost].symbols) = 2
    /\ pDiag = <<"redefined">>

----------------------------------------------------------------------------
(* C18 *)

\* the ways the program has of ending, and what exit status 1 comes with
C18_Ends ==
    /\ pStatus \in {"start", "run", "exit0", "exit1"}
    /\ pStatus = "exit1" =>
           /\ pLast.op = "error"
           /\ pDiag = <<IF pLast.lookahead = DONE
                        THEN "syntax error at end of file"
                        ELSE "syntax error at '" \o pLast.name \o "'">>
    /\ pStatus = "exit0" => pLast.op # "error"

\* C18: a syntax error is fatal and nothing else is.  The program ends only
\* by exit: with status 1 after error() has reported exactly one message,
\* `syntax error at end of file` when the lookahead is DONE and
\* `syntax error at '<text>'` with the lookahead's text otherwise, and with
\* status 0 at the end of an input without a mismatch, whatever the checker
\* has reported; it never ends in any other way; and once it has exited
\* with status 1 no step follows: no token is read, and neither the checker
\* nor the generator acts.
C18_SyntaxErrorsFatal ==
    /\ []C18_Ends
    /\ [][pStatus # "exit1"]_vars

----------------------------------------------------------------------------
(* C19 *)

\* the lines of standard output with the directive op
LinesOf(op) == {i \in 1..Len(pOut) : pOut[i].op = op}

\* C19: no code of a function is written after a .comm directive or the
\* .data section; and when the parse has reached the end of the input,
\* standard output holds exactly one `.comm name, size` for every symbol of
\* the outermost scope that is not a function, no .comm for a function, no
\* other .comm, and one .data section.
C19_GlobalsLastAndOnce ==
    /\ \A i \in LinesOf("function") :
           \A j \in LinesOf(".comm") \cup LinesOf(".data") \cup LinesOf(".asciz") :
               i < j
    /\ pStatus = "exit0" =>
           LET globals == pScopes[outermost].symbols
               objects == {k \in 1..Len(globals) : ~isFunction(globals[k].type)}
               comm(k) == {i \in LinesOf(".comm") : pOut[i].name = globals[k].name}
           IN  /\ \A k \in objects :
                      /\ Cardinality(comm(k)) = 1
                      /\ \A i \in comm(k) : pOut[i].size = TypeSize(globals[k].type)
               /\ \A k \in 1..Len(globals) \ objects : comm(k) = {}
               /\ Cardinality(LinesOf(".comm")) = Cardinality(objects)
               /\ Cardinality(LinesOf(".data")) = 1

\* a parse has ended in which a function was defined and generated and then
\* globals were declared, one name a second time with another type: the
\* function's code, one .comm and the .data section have been written
C19_Witness ==
    /\ pStatus = "exit0"
    /\ numerrors = 1
    /\ Len(pScopes[outermost].symbols) = 2
    /\ pOut = <<Line("function", "f", 0), Line(".comm", "x", SIZEOF_INT),
                Line(".data", NoName, 0)>>

----------------------------------------------------------------------------
(* SpecCheck: the rules are applied to the operands the parser can hand them *)

\* the types of the symbols an Identifier can name
IdTypes ==
    {integer, character, longint, Scalar("INT", 1), voidptr, Array("INT", 0, 2),
     ErrorType, DeclaredFunction}

\* the primary expressions: an Identifier, a decimal literal that fits an
\* int, and a string literal
Leaves ==
    {Identifier("x", t) : t \in IdTypes}
        \cup {Node("Number", integer, 3, NoName, <<>>),
              Node("String", Array("CHAR", 0, 2), 0, Literal, <<>>)}

\* the types of the symbols a call can name
CalleeTypes ==
    {ErrorType, integer, DeclaredFunction,
     Function("INT", 0, Params(<<>>)),
     Function("INT", 1, Params(<<integer>>)),
     Function("CHAR", 0, Params(<<Scalar("CHAR", 1), character>>))}

CheckInit ==
    /\ cExpr \in Leaves
    /\ cOther \in Leaves
    /\ cLast = NoRule
    /\ cRules = 0
    /\ cStmt = NoStatement
    /\ TypeIdle /\ AllocIdle /\ ParseIdle /\ GenIdle

\* primaryExpression (parser.cpp): '(' expression ')' returns the node that
\* expression() returned
Parenthesized(expr) == expr

\* the parser calls a rule on the operands it has built, those at the
\* positions paren having been written in parentheses, while the expression
\* is not yet made a statement; the node returned is the expression built
\* so far
RuleOn(name, operands, paren, callee, outcome) ==
    /\ cRules < MaxRules
    /\ cStmt.rule = "none"
    /\ ~cLast.aborted
    /\ cLast' = [rule |-> name, operands |-> operands, callee |-> callee,
                 expr |-> outcome.expr, diag |-> outcome.diag,
                 aborted |-> outcome.aborted, paren |-> paren]
    /\ cExpr' = outcome.expr
    /\ cRules' = cRules + 1
    /\ UNCHANGED <<cOther, cStmt>>
    /\ UNCHANGED otherThanCheck

\* ... none of them in parentheses
Rule(name, operands, callee, outcome) ==
    RuleOn(name, operands, {}, callee, outcome)

\* the parser calls a statement rule on the expressions it has built; the
\* statement ends the expression
StatementRule(name, operands, paren, outcome) ==
    /\ cStmt.rule = "none"
    /\ ~cLast.aborted
    /\ cStmt' = [rule |-> name, operands |-> operands, built |-> outcome.built,
                 diag |-> outcome.diag, paren |-> paren]
    /\ UNCHANGED <<cExpr, cOther, cLast, cRules>>
    /\ UNCHANGED otherThanCheck

\* the operands of a rule for two, in one order or the other
Operands == {<<cExpr, cOther>>, <<cOther, cExpr>>}

\* the arguments of a call
Arguments == {<<>>, <<cExpr>>, <<cExpr, cOther>>}

CheckNext ==
    \/ Rule("checkNot", <<cExpr>>, ErrorType, checkNot(cExpr))
    \/ Rule("checkNegate", <<cExpr>>, ErrorType, checkNegate(cExpr))
    \/ Rule("checkDereference", <<cExpr>>, ErrorType, checkDereference(cExpr))
    \/ Rule("checkAddress", <<cExpr>>, ErrorType, checkAddress(cExpr))
    \/ RuleOn("checkAddress", <<cExpr>>, {1}, ErrorType,
              checkAddress(Parenthesized(cExpr)))
    \/ Rule("checkSizeof", <<cExpr>>, ErrorType, checkSizeof(cExpr))
    \/ \E o \in Operands : Rule("checkArray", o, ErrorType, checkArray(o[1], o[2]))
    \/ \E o \in Operands, kind \in {"Multiply", "Divide", "Remainder"} :
          Rule("checkMultiplicative", o, ErrorType, checkMultiplicative(kind, o[1], o[2]))
    \/ \E o \in Operands : Rule("checkAdd", o, ErrorType, checkAdd(o[1], o[2]))
    \/ \E o \in Operands : Rule("checkSubtract", o, ErrorType, checkSubtract(o[1], o[2]))
    \/ \E o \in Operands,
          kind \in {"LessThan", "GreaterThan", "LessOrEqual", "GreaterOrEqual"} :
          Rule("checkRelational", o, ErrorType, checkRelational(kind, o[1], o[2]))
    \/ \E o \in Operands, kind \in {"Equal", "NotEqual"} :
          Rule("checkEquality", o, ErrorType, checkEquality(kind, o[1], o[2]))
    \/ \E o \in Operands, kind \in {"LogicalAnd", "LogicalOr"} :
          Rule("checkLogical", o, ErrorType, checkLogical(kind, o[1], o[2]))
    \/ \E t \in CalleeTypes, args \in Arguments :
          Rule("checkCall", args, t, checkCall("f", t, args))
    \/ \E o \in Operands :
          StatementRule("checkAssignment", o, {}, checkAssignment(o[1], o[2]))
    \/ \E o \in Operands :
          StatementRule("checkAssignment", o, {1},
                        checkAssignment(Parenthesized(o[1]), o[2]))

SpecCheck == CheckInit /\ [][CheckNext]_vars

----------------------------------------------------------------------------
(* C2 *)

\* some node of the list has the Error type
AnyError(nodes) == \E i \in 1..Len(nodes) : isError(nodes[i].type)

\* C2: whenever a rule is given an operand or argument of the Error type, or
\* returns a node one of whose operands has the Error type, the rule completes
\* without aborting, the node it returns has the Error type, and it reports
\* nothing.
C2_ErrorPropagates ==
    (/\ cLast.rule # "none"
     /\ \/ AnyError(cLast.operands)
        \/ (~cLast.aborted /\ AnyError(cLast.expr.kids)))
        => (~cLast.aborted /\ isError(cLast.expr.type) /\ cLast.diag = <<>>)

----------------------------------------------------------------------------
(* C3 *)

\* C3: a call of a function with a declared parameter list reports `invalid
\* arguments to called function` exactly once and returns a Call of the Error
\* type if the number of arguments differs from the number of parameters or
\* some converted argument is not compatible with its parameter; otherwise it
\* reports nothing and returns a Call of the callee's return type.
C3_CallArguments ==
    (cLast.rule = "checkCall" /\ isFunction(cLast.callee)
        /\ cLast.callee.params.present) =>
        LET params == cLast.callee.params.list
            args == cLast.operands
            invalid ==
                \/ Len(params) # Len(args)
                \/ \E i \in 1..Len(args) :
                      ~isCompatibleWith(convert(args[i], params[i]).type, params[i])
        IN  IF invalid
            THEN cLast.diag = <<"invalid_arguments">> /\ isError(cLast.expr.type)
            ELSE /\ cLast.diag = <<>>
                 /\ cLast.expr.type = Scalar(cLast.callee.spec, cLast.callee.ind)

----------------------------------------------------------------------------
(* C4 *)

\* the type, once promoted, is a pointer to something other than void
PointsToObject(t) ==
    LET p == TypePromote(t)
    IN  isScalar(p) /\ p.ind > 0 /\ p # voidptr

\* m is the operand p as the rule leaves a pointer operand: p itself, or p
\* under the Address that promotes an array; never a product
Unscaled(p, m) ==
    /\ m.type = TypePromote(p.type)
    /\ m = p \/ (m.kind = "Address" /\ m.kids = <<p>>)

\* m is the numeric operand n multiplied by size: a single literal if n is
\* a literal, else a Multiply of type long of n, extended to long, by the
\* literal size
Scaled(n, size, m) ==
    IF n.kind = "Number"
    THEN m.kind = "Number" /\ m.value = n.value * size /\ m.kids = <<>>
    ELSE /\ m.kind = "Multiply" /\ m.type = longint
         /\ Len(m.kids) = 2
         /\ m.kids[1].type = longint
         /\ m.kids[1] = n \/ (m.kids[1].kind = "Cast" /\ m.kids[1].kids = <<n>>)
         /\ m.kids[2].kind = "Number" /\ m.kids[2].value = size

\* C4: in p + n, n + p, p - n and p[n], where p is a pointer to T after
\* promotion, T not void, and n is numeric, the sum or difference built has
\* the pointer type, its pointer operand is p unscaled, and its numeric
\* operand is n multiplied by size(T): one literal for a literal n, and
\* otherwise a Multiply of type long of n extended to long by size(T).
C4_PointerArithmeticScaled ==
    (cLast.rule \in {"checkAdd", "checkSubtract", "checkArray"}) =>
        LET l == cLast.operands[1]
            r == cLast.operands[2]
            node == IF cLast.rule = "checkArray" THEN cLast.expr.kids[1] ELSE cLast.expr
            kind == IF cLast.rule = "checkSubtract" THEN "Subtract" ELSE "Add"
        IN  /\ (PointsToObject(l.type) /\ isNumeric(r.type)) =>
                  /\ cLast.diag = <<>>
                  /\ node.kind = kind
                  /\ node.type = TypePromote(l.type)
                  /\ Unscaled(l, node.kids[1])
                  /\ Scaled(r, TypeSize(TypeDeref(TypePromote(l.type))), node.kids[2])
            /\ (cLast.rule = "checkAdd" /\ isNumeric(l.type) /\ PointsToObject(r.type)) =>
                  /\ cLast.diag = <<>>
                  /\ node.kind = kind
                  /\ node.type = TypePromote(r.type)
                  /\ Unscaled(r, node.kids[2])
                  /\ Scaled(l, TypeSize(TypeDeref(TypePromote(r.type))), node.kids[1])

\* n + p was checked with n a char variable and p an array of int: n was
\* cast to long and multiplied by the size of an int
C4_Witness ==
    /\ cLast.rule = "checkAdd"
    /\ cLast.operands[1] = Identifier("x", character)
    /\ isArray(cLast.operands[2].type)
    /\ cLast.expr.kids[1].kind = "Multiply"
    /\ cLast.expr.kids[1].kids[1].kind = "Cast"
    /\ cLast.expr.kids[1].kids[2].value = SIZEOF_INT
    /\ cLast.expr.kids[2].kind = "Address"

----------------------------------------------------------------------------
(* C5 *)

\* C5: a subtraction whose operands have, after promotion, the identical
\* type pointer to T, T not void, reports nothing and returns
\* Divide(Subtract(left, right), Number(size(T))) of type long; and no other
\* subtraction returns a Divide.
C5_PointerDifference ==
    cLast.rule = "checkSubtract" =>
        LET l == cLast.operands[1]
            r == cLast.operands[2]
        IN  IF PointsToObject(l.type) /\ TypePromote(l.type) = TypePromote(r.type)
            THEN /\ cLast.diag = <<>>
                 /\ cLast.expr.kind = "Divide"
                 /\ cLast.expr.type = longint
                 /\ cLast.expr.kids[1].kind = "Subtract"
                 /\ Unscaled(l, cLast.expr.kids[1].kids[1])
                 /\ Unscaled(r, cLast.expr.kids[1].kids[2])
                 /\ cLast.expr.kids[2] = Number(TypeSize(TypeDeref(TypePromote(l.type))))
            ELSE cLast.expr.kind # "Divide"

----------------------------------------------------------------------------
(* C13 *)

\* C13: for l = r with l an lvalue: if both types are numeric, nothing is
\* reported and, when the types differ, r is replaced by a conversion whose
\* type is exactly the type of l; if one side is a pointer and the other is
\* numeric, `invalid operands to binary =` is reported exactly once
C13_AssignmentTyping ==
    (cStmt.rule = "checkAssignment" /\ lvalue(cStmt.operands[1])) =>
        LET l == cStmt.operands[1]
            r == cStmt.operands[2]
            built == cStmt.built[2]
        IN  /\ (isNumeric(l.type) /\ isNumeric(r.type)) =>
                  /\ cStmt.diag = <<>>
                  /\ TypeNeq(l.type, r.type) => (built # r /\ built.type = l.type)
                  /\ TypeEq(l.type, r.type) => built = r
            /\ (\/ isPointer(l.type) /\ isNumeric(r.type)
                \/ isNumeric(l.type) /\ isPointer(r.type)) =>
                  cStmt.diag = <<"invalid_operands">>

\* a long has been assigned to a char variable through a truncating cast
C13_Witness ==
    /\ cStmt.rule = "checkAssignment"
    /\ cStmt.operands[1] = Identifier("x", character)
    /\ TypeEq(cStmt.operands[2].type, longint)
    /\ cStmt.built[2] = Unary("Cast", cStmt.operands[2], character)
    /\ cStmt.diag = <<>>

----------------------------------------------------------------------------
(* C15 *)

\* the Identifier the parser builds for a later use of a name that
\* checkIdentifier has bound to the Error type
Undeclared == Identifier("x", ErrorType)

\* the rule was handed the undeclared identifier and nothing else that it
\* could report: an operator rule with the identifier among its operands, or
\* a call of a function whose parameter list, if it has one, has as many
\* entries as there are arguments, with every argument the identifier
UseOfUndeclared(rule, operands, callee) ==
    /\ rule # "none"
    /\ operands # <<>>
    /\ IF rule = "checkCall"
       THEN /\ isFunction(callee)
            /\ callee.params.present => Len(callee.params.list) = Len(operands)
            /\ \A i \in 1..Len(operands) : operands[i] = Undeclared
       ELSE \E i \in 1..Len(operands) : operands[i] = Undeclared

----------------------------------------------------------------------------
(* C17 *)

\* C17: an expression written in parentheses is not an lvalue: taking the
\* address of a parenthesised expression, and assigning to one, report
\* `lvalue required in expression` whenever the operands have no Error
\* type, whatever the expression inside the parentheses is.
C17_ParenthesesClearLvalue ==
    /\ (/\ cLast.rule = "checkAddress"
        /\ 1 \in cLast.paren
        /\ TypeNeq(cLast.operands[1].type, ErrorType))
           => cLast.diag = <<"invalid_lvalue">>
    /\ (/\ cStmt.rule = "checkAssignment"
        /\ 1 \in cStmt.paren
        /\ TypeNeq(cStmt.operands[1].type, ErrorType)
        /\ TypeNeq(cStmt.operands[2].type, ErrorType))
           => cStmt.diag = <<"invalid_lvalue">>

----------------------------------------------------------------------------
(* Generator (generator.cpp): registers, spills and the string table *)

\* the part of the generator's state that assign, load and getreg work on
Machine == [regs |-> gRegs, nodes |-> gNodes, offset |-> gOffset]

\* an assign that binds the two and unbinds nothing
assignOver(m, expr, reg) ==
    LET m1 == IF expr # 0 THEN [m EXCEPT !.nodes[expr].reg = reg] ELSE m
    IN IF reg # NoReg THEN [m1 EXCEPT !.regs[reg] = expr] ELSE m1

\* assign(expr, reg): bind the two to each other, unbinding what either was
\* bound to; expr = 0 and reg = NoReg are the null pointers
assign(m, expr, reg) ==
    LET m1 == IF expr # 0
              THEN LET old == m.nodes[expr].reg
                       m0 == IF old # NoReg THEN [m EXCEPT !.regs[old] = 0] ELSE m
                   IN [m0 EXCEPT !.nodes[expr].reg = reg]
              ELSE m
    IN IF reg # NoReg
       THEN LET prev == m1.regs[reg]
                m2 == IF prev # 0 THEN [m1 EXCEPT !.nodes[prev].reg = NoReg] ELSE m1
            IN [m2 EXCEPT !.regs[reg] = expr]
       ELSE m1

\* load(expr, reg): spill what reg holds to a new slot of the frame, then
\* move expr into reg
load(m, expr, reg) ==
    IF m.regs[reg] # expr
    THEN LET held == m.regs[reg]
             slot == m.offset - m.nodes[held].size
             m1 == IF held # 0
                   THEN [m EXCEPT !.offset = slot, !.nodes[held].offset = slot]
                   ELSE m
         IN assign(m1, expr, reg)
    ELSE m

\* getreg(): the first register of the pool that holds nothing; when all are
\* held, the first of the pool after spilling it
getreg(m) ==
    LET free == {i \in 1..Len(registers) : m.regs[registers[i]] = 0}
    IN IF free # {}
       THEN [m |-> m, reg |-> registers[CHOOSE i \in free : \A j \in free : i <= j]]
       ELSE [m |-> load(m, 0, registers[1]), reg |-> registers[1]]

\* if (expr->_register == nullptr) load(expr, getreg());
loadUnlessHeld(m, expr) ==
    IF m.nodes[expr].reg = NoReg
    THEN LET g == getreg(m) IN load(g.m, expr, g.reg)
    ELSE m

\* load(expr, getreg());
loadFresh(m, expr) == LET g == getreg(m) IN load(g.m, expr, g.reg)

\* assign(expr, getreg());
assignFresh(m, expr) == LET g == getreg(m) IN assign(g.m, expr, g.reg)

\* an align that finds every offset aligned
alignNone(off) == 0

\* align(offset): the bytes that bring offset to a multiple of the alignment
align(off) ==
    LET a == IF off < 0 THEN 0 - off ELSE off
    IN IF a % STACK_ALIGNMENT = 0 THEN 0 ELSE STACK_ALIGNMENT - (a % STACK_ALIGNMENT)

\* a Label constructor that leaves the counter as it is
LabelSame(counter) == [number |-> counter, counter |-> counter]

\* Label::Label: _number = _counter ++
Label(counter) == [number |-> counter, counter |-> counter + 1]

\* a Label constructed, with what it was constructed for
Given(label, use) == [number |-> label.number, use |-> use]
\* Label a, b; in a generate() of a statement or of an && or ||
TwoLabels(counter) ==
    LET a == Label(counter)
        b == Label(a.counter)
    IN  [first |-> a.number, second |-> b.number, counter |-> b.counter,
         given |-> <<Given(a, "flow"), Given(b, "flow")>>]

\* String::operand with no look-up of the table: a label per operand
operandFresh(map, counter, key) ==
    LET label == Label(counter)
        entry == Label(label.counter)
    IN  [label |-> label.number, counter |-> entry.counter,
         given |-> <<Given(label, "string"), Given(entry, "map")>>,
         map |-> [k \in DOMAIN map \cup {key} |->
                     IF k = key THEN label.number ELSE map[k]]]

\* String::operand: the label of a string of this content, made and recorded
\* in stringMap on first use (Label label takes one number, and the entry
\* stringMap[key] default-constructs another before label is copied into it)
operand(map, counter, key) ==
    IF key \notin DOMAIN map
    THEN LET label == Label(counter)
             entry == Label(label.counter)
         IN  [label |-> label.number, counter |-> entry.counter,
              given |-> <<Given(label, "string"), Given(entry, "map")>>,
              map |-> [k \in DOMAIN map \cup {key} |->
                          IF k = key THEN label.number ELSE map[k]]]
    ELSE [label |-> map[key], counter |-> counter, given |-> <<>>, map |-> map]

\* the sizes of the expressions generated and the contents of the string
\* literals
Sizes == {SIZEOF_INT, SIZEOF_LONG}
LiteralOrder == <<"s", "t">>
Literals == {LiteralOrder[i] : i \in 1..Len(LiteralOrder)}

\* an expression node as constructed: in no register, with no slot
Expr(size) == [size |-> size, reg |-> NoReg, offset |-> 0]
\* the node whose generate() is running, and the state with it in the tree
This == Len(gNodes) + 1
Created(size) == [Machine EXCEPT !.nodes = Append(@, Expr(size))]
\* the i-th last node whose generate() returned: the operands of This
Top(i) == gStack[Len(gStack) + 1 - i]
\* the nodes below belong to the && or || under way, or to none
Floor == IF gOpen = <<>> THEN 0 ELSE gOpen[Len(gOpen)].height
\* a node with n operands can be generated
Operable(n) ==
    /\ gPhase \in {"between", "expr"}
    /\ gCount < MaxGenNodes
    /\ Len(gStack) - n >= Floor
\* the lowest _offset among those given so far and those of the nodes
Lowest(nodes, low) ==
    LET given == {low} \cup {nodes[i].offset : i \in 1..Len(nodes)}
    IN  CHOOSE o \in given : \A q \in given : o <= q

\* generate() of This returns, having used its n operands and written code
ReturnedWith(m, n, code) ==
    /\ gRegs' = m.regs /\ gNodes' = m.nodes /\ gOffset' = m.offset
    /\ gLow' = Lowest(m.nodes, gLow)
    /\ gStack' = Append(SubSeq(gStack, 1, Len(gStack) - n), This)
    /\ gCount' = gCount + 1
    /\ gPhase' = "expr"
    /\ UNCHANGED <<gData, gExpect, gFuncs, gSet, gSkipped, gFlow>>
    /\ gCode' = code
    /\ UNCHANGED otherThanGen

Returned(m, n) == ReturnedWith(m, n, <<>>)

\* Expression::generate of a Number, an Identifier or a String: no code
Expression_generate(size) ==
    /\ Operable(0)
    /\ Returned(Created(size), 0)
    /\ UNCHANGED <<gOpen, gLabels, stringMap, gOperands, gGiven>>

\* Call::generate, after its arguments, the last first: the arguments go to
\* the parameter registers or, through rax, to the stack
RECURSIVE passArguments(_, _, _)
passArguments(m, args, i) ==
    IF i = 0 THEN m
    ELSE LET m1 == IF i > NUM_PARAM_REGS
                   THEN load(m, args[i], "rax")
                   ELSE load(m, args[i], parameters[i])
         IN passArguments(assign(m1, args[i], NoReg), args, i - 1)

\* for (auto reg : registers) load(nullptr, reg);
RECURSIVE spillAll(_, _)
spillAll(m, i) ==
    IF i > Len(registers) THEN m ELSE spillAll(load(m, 0, registers[i]), i + 1)

\* a Call::generate that pushes without padding the stack
Call_codeUnpadded(n) ==
    LET pushed == IF n > NUM_PARAM_REGS THEN n - NUM_PARAM_REGS ELSE 0
        numBytes == pushed * SIZEOF_PARAM
    IN  [i \in 1..pushed |-> Ins("pushq", "q", "rax", 0)]
        \o <<Ins("call", "", NoReg, n)>>
        \o (IF numBytes > 0 THEN <<Ins("addq", "q", "rsp", numBytes)>> ELSE <<>>)

\* what Call::generate of n arguments writes to adjust the stack, around
\* its call instruction (which is noted with n)
Call_code(n) ==
    LET pushed == IF n > NUM_PARAM_REGS THEN n - NUM_PARAM_REGS ELSE 0
        pad == IF n > NUM_PARAM_REGS THEN align(pushed * SIZEOF_PARAM) ELSE 0
        numBytes == pad + pushed * SIZEOF_PARAM
    IN  (IF pad > 0 THEN <<Ins("subq", "q", "rsp", pad)>> ELSE <<>>)
        \o [i \in 1..pushed |-> Ins("pushq", "q", "rax", 0)]
        \o <<Ins("call", "", NoReg, n)>>
        \o (IF numBytes > 0 THEN <<Ins("addq", "q", "rsp", numBytes)>> ELSE <<>>)

Call_generate(n, size) ==
    /\ Operable(n)
    /\ LET args == [i \in 1..n |-> Top(i)]
           m1 == passArguments(Created(size), args, n)
           m2 == spillAll(m1, 1)
       IN ReturnedWith(assign(m2, This, "rax"), n, Call_code(n))
    /\ UNCHANGED <<gOpen, gLabels, stringMap, gOperands, gGiven>>

\* Add::generate, Subtract::generate, Multiply::generate
Add_generate ==
    /\ Operable(2)
    /\ LET left == Top(2)
           right == Top(1)
           m1 == loadUnlessHeld(Created(gNodes[left].size), left)
           m2 == assign(m1, right, NoReg)
       IN Returned(assign(m2, This, m2.nodes[left].reg), 2)
    /\ UNCHANGED <<gOpen, gLabels, stringMap, gOperands, gGiven>>

\* Divide::generate (result in rax) and Remainder::generate (in rdx)
Divide_generate(result) ==
    /\ Operable(2)
    /\ LET left == Top(2)
           right == Top(1)
           m1 == load(Created(gNodes[left].size), left, "rax")
           m2 == load(m1, 0, "rdx")
           m3 == load(m2, right, "rcx")
           m4 == assign(m3, left, NoReg)
           m5 == assign(m4, right, NoReg)
       IN Returned(assign(m5, This, result), 2)
    /\ UNCHANGED <<gOpen, gLabels, stringMap, gOperands, gGiven>>

\* Expression::compare, for the generate() of the six comparisons
compare ==
    /\ Operable(2)
    /\ LET left == Top(2)
           right == Top(1)
           m1 == loadFresh(Created(SIZEOF_INT), left)
           m2 == assign(m1, left, NoReg)
           m3 == assign(m2, right, NoReg)
       IN Returned(assignFresh(m3, This), 2)
    /\ UNCHANGED <<gOpen, gLabels, stringMap, gOperands, gGiven>>

Not_generate ==
    /\ Operable(1)
    /\ LET expr == Top(1)
           m1 == loadUnlessHeld(Created(SIZEOF_INT), expr)
           m2 == assign(m1, This, m1.nodes[expr].reg)
       IN Returned(assign(m2, expr, NoReg), 1)
    /\ UNCHANGED <<gOpen, gLabels, stringMap, gOperands, gGiven>>

\* Negate::generate: the operand is loaded into the register getreg()
\* returns, the neg is written on the operand's register, the operand is
\* released and the node bound to the register getreg() returns then
Negate_generate ==
    /\ Operable(1)
    /\ LET expr == Top(1)
           m1 == loadFresh(Created(gNodes[expr].size), expr)
           m2 == assign(m1, expr, NoReg)
       IN ReturnedWith(assignFresh(m2, This), 1,
                       <<Ins("neg", suffix(m1.nodes[expr].size), m1.nodes[expr].reg, 0)>>)
    /\ UNCHANGED <<gOpen, gLabels, stringMap, gOperands, gGiven>>

\* Address::generate of *pointer: the value of pointer is the address
Address_generateDeref ==
    /\ Operable(1)
    /\ LET pointer == Top(1)
           m1 == loadUnlessHeld(Created(SIZEOF_PTR), pointer)
       IN Returned(assign(m1, This, m1.nodes[pointer].reg), 1)
    /\ UNCHANGED <<gOpen, gLabels, stringMap, gOperands, gGiven>>

\* Address::generate of an Identifier (lit = NoName) or of a String of
\* content lit, whose operand text is its label
Address_generate(lit) ==
    /\ Operable(0)
    /\ Returned(assignFresh(Created(SIZEOF_PTR), This), 0)
    /\ IF lit = NoName
       THEN UNCHANGED <<gLabels, stringMap, gOperands, gGiven>>
       ELSE LET o == operand(stringMap, gLabels, lit)
            IN /\ stringMap' = o.map
               /\ gLabels' = o.counter
               /\ gGiven' = gGiven \o o.given
               /\ gOperands' = Append(gOperands,
                      [content |-> lit, label |-> o.label, fn |-> gFuncs])
    /\ UNCHANGED gOpen

\* Dereference::generate of a node of this size: the operand is a pointer;
\* the mov is written with the suffix of the operand and noted with the size
\* of the node
Dereference_generate(size) ==
    /\ Operable(1)
    /\ gNodes[Top(1)].size = SIZEOF_PTR
    /\ LET expr == Top(1)
           m1 == loadUnlessHeld(Created(size), expr)
           reg == m1.nodes[expr].reg
       IN ReturnedWith(assign(m1, This, reg), 1,
                       <<Ins("mov", suffix(m1.nodes[expr].size), reg, size)>>)
    /\ UNCHANGED <<gOpen, gLabels, stringMap, gOperands, gGiven>>

\* Cast::generate: to a type no larger the node takes over the register; to
\* a larger one the register is first released, then taken
Cast_generate(size) ==
    /\ Operable(1)
    /\ LET expr == Top(1)
           m1 == loadFresh(Created(size), expr)
           reg == m1.nodes[expr].reg
       IN IF gNodes[expr].size >= size
          THEN Returned(assign(m1, This, reg), 1)
          ELSE Returned(assign(assign(m1, expr, NoReg), This, reg), 1)
    /\ UNCHANGED <<gOpen, gLabels, stringMap, gOperands, gGiven>>

\* Expression::test: the value is compared with zero and released
test(m, expr) == assign(loadUnlessHeld(m, expr), expr, NoReg)

\* the expressions among these that a register holds
Held(m, exprs) == {e \in exprs : m.nodes[e].reg # NoReg}
\* the nodes that await their parent outside the && or || under way
Awaiting == {gStack[i] : i \in 1..Floor}

\* LogicalAnd::generate and LogicalOr::generate: the two labels; after the
\* left operand, its test, whose jump goes past all that the rest writes
\* before the exit label; after the right operand, its test, whose jump
\* goes past what getreg() writes for the result
Logical_generate ==
    /\ Operable(0)
    /\ gOpen' = Append(gOpen, [height |-> Len(gStack), left |-> FALSE, held |-> {}])
    /\ gLabels' = TwoLabels(gLabels).counter
    /\ gGiven' = gGiven \o TwoLabels(gLabels).given
    /\ gCount' = gCount + 1
    /\ gPhase' = "expr"
    /\ UNCHANGED <<gRegs, gNodes, gStack, gOffset, stringMap, gOperands, gData,
                   gExpect, gFuncs, gLow, gSet, gSkipped, gFlow>>
    /\ gCode' = <<>>
    /\ UNCHANGED otherThanGen

Logical_testLeft ==
    /\ gPhase = "expr" /\ gOpen # <<>>
    /\ ~gOpen[Len(gOpen)].left
    /\ Len(gStack) = Floor + 1
    /\ LET m == test(Machine, Top(1))
       IN /\ gRegs' = m.regs /\ gNodes' = m.nodes /\ gOffset' = m.offset
          /\ gLow' = Lowest(m.nodes, gLow)
          /\ gOpen' = [gOpen EXCEPT ![Len(gOpen)].left = TRUE,
                                    ![Len(gOpen)].held = Held(m, Awaiting)]
    /\ gStack' = SubSeq(gStack, 1, Floor)
    /\ UNCHANGED <<gLabels, stringMap, gOperands, gData, gPhase, gExpect,
                   gCount, gFuncs, gSet,
                   gSkipped, gGiven, gFlow>>
    /\ gCode' = <<>>
    /\ UNCHANGED otherThanGen

Logical_testRight ==
    /\ gPhase = "expr" /\ gOpen # <<>>
    /\ gOpen[Len(gOpen)].left
    /\ Len(gStack) = Floor + 1
    /\ LET atJump == loadUnlessHeld(Created(SIZEOF_INT), Top(1))
           m1 == assign(atJump, Top(1), NoReg)
           m2 == assignFresh(m1, This)
           before == gOpen[Len(gOpen)].held \cup Held(atJump, Awaiting)
       IN /\ gRegs' = m2.regs /\ gNodes' = m2.nodes /\ gOffset' = m2.offset
          /\ gLow' = Lowest(m2.nodes, gLow)
          /\ gSkipped' = gSkipped \cup (before \ Held(m2, before))
    /\ gStack' = Append(SubSeq(gStack, 1, Floor), This)
    /\ gOpen' = SubSeq(gOpen, 1, Len(gOpen) - 1)
    /\ UNCHANGED <<gLabels, stringMap, gOperands, gData, gPhase, gExpect,
                   gCount, gFuncs, gSet,
                   gGiven, gFlow>>
    /\ gCode' = <<>>
    /\ UNCHANGED otherThanGen

\* a statement's generate() can end: its n expressions have been generated
Endable(n, expect) ==
    /\ gPhase = "expr" /\ gOpen = <<>>
    /\ Len(gStack) = n
    /\ gExpect \in expect

\* Block::generate after stmt->generate(): every register holds nothing, or
\* the assertion stops the run
Block_generate(m) ==
    LET empty == \A r \in RegisterNames : m.regs[r] = 0
    IN /\ gRegs' = m.regs /\ gOffset' = m.offset
       /\ gNodes' = IF empty THEN <<>> ELSE m.nodes
       /\ gLow' = Lowest(m.nodes, gLow)
       /\ gStack' = <<>>
       /\ gPhase' = IF empty THEN "between" ELSE "aborted"
       /\ gExpect' = IF gExpect = "init" THEN "test" ELSE "any"
       /\ gSkipped' = IF empty THEN {} ELSE gSkipped
       /\ UNCHANGED <<gOpen, gLabels, stringMap, gOperands, gData, gCount, gFuncs, gSet,
                      gGiven, gFlow>>
       /\ gCode' = <<>>
       /\ UNCHANGED otherThanGen

\* Simple::generate without the release of its expression
Simple_keep(m, expr) == m

Simple_generate(m, expr) == assign(m, expr, NoReg)

Simple ==
    /\ Endable(1, {"any", "init"})
    /\ Block_generate(Simple_generate(Machine, Top(1)))

\* Assignment::generate to an Identifier: right is loaded, stored, released
Assignment_generate ==
    /\ Endable(1, {"any", "init"})
    /\ LET right == Top(1)
           m1 == loadFresh(Machine, right)
       IN Block_generate(assign(m1, right, NoReg))

\* Assignment::generate to *pointer: right was generated before pointer
Assignment_generateDeref ==
    /\ Endable(2, {"any", "init"})
    /\ LET right == Top(2)
           pointer == Top(1)
           m1 == loadFresh(Machine, pointer)
           m2 == loadFresh(m1, right)
           m3 == assign(m2, pointer, NoReg)
       IN Block_generate(assign(m3, right, NoReg))

Return_generate ==
    /\ Endable(1, {"any"})
    /\ LET expr == Top(1)
           m1 == load(Machine, expr, "rax")
       IN Block_generate(assign(m1, expr, NoReg))

\* While::generate, If::generate and For::generate: the two labels; a For
\* then generates its initial statement
Control_generate(first) ==
    /\ gPhase = "between" /\ gExpect = "any"
    /\ gCount < MaxGenNodes
    /\ gLabels' = TwoLabels(gLabels).counter
    /\ gGiven' = gGiven \o TwoLabels(gLabels).given
    /\ gExpect' = first
    /\ UNCHANGED <<gRegs, gNodes, gStack, gOpen, gOffset, stringMap, gOperands,
                   gData, gPhase, gCount, gFuncs, gLow, gSet, gSkipped, gFlow>>
    /\ gCode' = <<>>
    /\ UNCHANGED otherThanGen

\* ... then _expr->test(), after which the statements of the body follow
Control_test ==
    /\ Endable(1, {"test"})
    /\ LET m == test(Machine, Top(1))
           empty == \A r \in RegisterNames : m.regs[r] = 0
       IN /\ gRegs' = m.regs /\ gOffset' = m.offset
          /\ gNodes' = IF empty THEN <<>> ELSE m.nodes
          /\ gLow' = Lowest(m.nodes, gLow)
          /\ gSkipped' = IF empty THEN {} ELSE gSkipped
    /\ gStack' = <<>>
    /\ gPhase' = "between"
    /\ gExpect' = "any"
    /\ UNCHANGED <<gOpen, gLabels, stringMap, gOperands, gData, gCount, gFuncs, gSet,
                   gGiven, gFlow>>
    /\ gCode' = <<>>
    /\ UNCHANGED otherThanGen

\* the offsets Function::allocate leaves for the functions generated
FrameOffsets == {0, 0 - SIZEOF_INT}

\* Function::generate up to its body: the frame is laid out
Function_generate ==
    /\ gPhase = "idle"
    /\ gFuncs < MaxGenFunctions
    /\ gOffset' \in FrameOffsets
    /\ gLow' = gOffset'
    /\ gSet' = <<>>
    /\ gCode' = <<>>
    /\ UNCHANGED <<gSkipped, gGiven, gFlow>>
    /\ gFuncs' = gFuncs + 1
    /\ gPhase' = "between"
    /\ UNCHANGED <<gRegs, gNodes, gStack, gOpen, gLabels, stringMap, gOperands,
                   gData, gExpect, gCount>>
    /\ UNCHANGED otherThanGen

\* Function::generate after its body: the frame is rounded up
Function_epilogue ==
    /\ gPhase = "between" /\ gExpect = "any"
    /\ gOffset' = gOffset - align(gOffset - 2 * SIZEOF_REG)
    /\ gSet' = <<0 - gOffset'>>
    /\ gCode' = <<>>
    /\ UNCHANGED <<gSkipped, gGiven, gFlow>>
    /\ gPhase' = "idle"
    /\ UNCHANGED <<gRegs, gNodes, gStack, gOpen, gLabels, stringMap, gOperands,
                   gData, gExpect, gCount, gFuncs, gLow>>
    /\ UNCHANGED otherThanGen

\* generateGlobals, the data section: an .asciz line per entry of stringMap
generateData ==
    /\ gPhase = "idle"
    /\ gData' = LET held == SelectSeq(LiteralOrder, LAMBDA k : k \in DOMAIN stringMap)
                IN [i \in 1..Len(held) |-> [label |-> stringMap[held[i]], asciz |-> held[i]]]
    /\ gPhase' = "done"
    /\ UNCHANGED <<gRegs, gNodes, gStack, gOpen, gOffset, gLabels, stringMap,
                   gOperands, gExpect, gCount, gFuncs, gLow, gSet,
                   gSkipped, gGiven, gFlow>>
    /\ gCode' = <<>>
    /\ UNCHANGED otherThanGen

\* the state in which k address-of operands of a call, the first statement
\* of the first function, have been generated
RECURSIVE Pending(_)
Pending(k) ==
    IF k = 0
    THEN [regs |-> [r \in RegisterNames |-> 0], nodes |-> <<>>, offset |-> 0]
    ELSE LET p == Pending(k - 1)
         IN assignFresh([p EXCEPT !.nodes = Append(@, Expr(SIZEOF_PTR))], Len(p.nodes) + 1)

\* generation is followed from the start of the program, or from a call whose
\* operands up to now fill the registers
GenInit ==
    /\ \E k \in {0, Len(registers)} :
          /\ gRegs = Pending(k).regs
          /\ gNodes = Pending(k).nodes
          /\ gStack = [i \in 1..k |-> i]
          /\ gPhase = IF k = 0 THEN "idle" ELSE "expr"
          /\ gFuncs = IF k = 0 THEN 0 ELSE 1
    /\ gOpen = <<>> /\ gOffset = 0 /\ gLabels = 0 /\ stringMap = <<>>
    /\ gOperands = <<>> /\ gData = <<>> /\ gExpect = "any" /\ gCount = 0
    /\ gLow = 0 /\ gSet = <<>>
    /\ gCode = <<>> /\ gSkipped = {} /\ gGiven = <<>> /\ gFlow = <<>>
    /\ TypeIdle /\ AllocIdle /\ ParseIdle /\ CheckIdle

GenNext ==
    \/ \E size \in Sizes : Expression_generate(size)
    \/ \E n \in 0..MaxArgs, size \in Sizes : Call_generate(n, size)
    \/ Add_generate
    \/ \E result \in {"rax", "rdx"} : Divide_generate(result)
    \/ compare
    \/ Not_generate
    \/ Negate_generate
    \/ Address_generateDeref
    \/ \E lit \in Literals \cup {NoName} : Address_generate(lit)
    \/ \E size \in Sizes : Dereference_generate(size)
    \/ \E size \in Sizes : Cast_generate(size)
    \/ Logical_generate
    \/ Logical_testLeft
    \/ Logical_testRight
    \/ Simple
    \/ Assignment_generate
    \/ Assignment_generateDeref
    \/ Return_generate
    \/ \E first \in {"test", "init"} : Control_generate(first)
    \/ Control_test
    \/ Function_generate
    \/ Function_epilogue
    \/ generateData

SpecGen == GenInit /\ [][GenNext]_vars

----------------------------------------------------------------------------
(* C6: the registers between statements *)

NoRegisterHeld == \A r \in RegisterNames : gRegs[r] = 0

\* C6: when the generation of a statement has finished (and when the test of
\* a While, a For or an If has been generated, before the statements of its
\* body), no register of the pool holds an expression, and the assertion of
\* Block::generate has not failed
C6_RegistersEmptyBetweenStatements ==
    /\ gPhase # "aborted"
    /\ gPhase \in {"between", "idle", "done"} => NoRegisterHeld

\* a statement has finished whose expression began with every register
\* held: each of the nine was spilled to the frame on the way
C6_Witness ==
    /\ gPhase = "between"
    /\ NoRegisterHeld
    /\ gOffset <= 0 - Len(registers) * SIZEOF_PTR

----------------------------------------------------------------------------
(* C9: string literals are interned *)

\* C9: two String operands of the same content are written as the same
\* label, in one function or in two, and the data section holds exactly one
\* .asciz line of that content, under that label
C9_StringsInterned ==
    /\ \A i, j \in 1..Len(gOperands) :
          gOperands[i].content = gOperands[j].content
              => gOperands[i].label = gOperands[j].label
    /\ gPhase = "done" =>
          \A i \in 1..Len(gOperands) :
             /\ Cardinality({d \in 1..Len(gData) :
                                gData[d].asciz = gOperands[i].content}) = 1
             /\ \A d \in 1..Len(gData) :
                   gData[d].asciz = gOperands[i].content
                       => gData[d].label = gOperands[i].label

\* the data section is written after a string of one content was an operand
\* twice in one function and once in another, a label having been taken by a
\* statement in between
C9_Witness ==
    /\ gPhase = "done"
    /\ \E i, j, k \in 1..Len(gOperands) :
          /\ i < j /\ j < k
          /\ gOperands[i].content = gOperands[j].content
          /\ gOperands[j].content = gOperands[k].content
          /\ gOperands[i].fn = gOperands[j].fn
          /\ gOperands[j].fn # gOperands[k].fn
    /\ Len(gData) = 1

----------------------------------------------------------------------------
(* C20: the size of the frame *)

\* the value of the .set line covers the function's own offsets
FrameCovers ==
    gSet # <<>> =>
        /\ gSet[1] >= 0
        /\ gSet[1] % STACK_ALIGNMENT = 0
        /\ gSet[1] >= 0 - gLow
        /\ gSet[1] >= 0 - Lowest(gNodes, 0)

\* C20: the value written in `.set <name>.size` is a multiple of 16, not
\* negative, and at least the magnitude of the lowest offset given to a
\* local, a register-passed parameter or a spilled node of the function;
\* and the frame offset a function starts its body with is the one its own
\* allocation leaves, whatever the function generated before it spilled.
C20_FrameSizeAligned ==
    /\ []FrameCovers
    /\ [][(gPhase = "idle" /\ gPhase' = "between") =>
              (gOffset' \in FrameOffsets /\ gLow' = gOffset')]_vars

\* the second function generated, one with a local of four bytes, has
\* spilled two registers of eight bytes and its .set line is written
C20_Witness ==
    /\ gFuncs = 2
    /\ gPhase = "idle"
    /\ gLow = 0 - (SIZEOF_INT + 2 * SIZEOF_REG)
    /\ gSet = <<2 * STACK_ALIGNMENT>>

----------------------------------------------------------------------------
(* SpecReg: assign, load and getreg are called in any order, on any         *)
(* expression and register (generator.cpp)                                  *)

\* the expressions the calls are made on besides nullptr: two that fill the
\* head of the pool when the registers are full, and two bound to nothing
RegExprs(nodes) == {1, 2, Len(nodes) - 1, Len(nodes)}
\* the registers the calls are made on besides nullptr
RegRegisters == {registers[1], registers[2], registers[Len(registers)]}

\* the registers hold nothing or every one of them holds an expression, and
\* two more expressions are bound to no register
RegInit ==
    /\ \E k \in {0, Len(registers)} :
          /\ gRegs = Pending(k).regs
          /\ gNodes = Pending(k).nodes \o <<Expr(SIZEOF_INT), Expr(SIZEOF_LONG)>>
    /\ gStack = <<>> /\ gOpen = <<>> /\ gOffset = 0 /\ gLabels = 0
    /\ stringMap = <<>> /\ gOperands = <<>> /\ gData = <<>> /\ gPhase = "idle"
    /\ gExpect = "any" /\ gCount = 0 /\ gFuncs = 0 /\ gLow = 0 /\ gSet = <<>>
    /\ gCode = <<>> /\ gSkipped = {} /\ gGiven = <<>> /\ gFlow = <<>>
    /\ TypeIdle /\ AllocIdle /\ ParseIdle /\ CheckIdle

\* the state a call leaves
RegCalled(m) ==
    /\ m.offset >= 0 - MaxSpills * SIZEOF_PTR
    /\ gRegs' = m.regs /\ gNodes' = m.nodes /\ gOffset' = m.offset
    /\ UNCHANGED <<gStack, gOpen, gLabels, stringMap, gOperands, gData, gPhase,
                   gExpect, gCount, gFuncs, gLow, gSet,
                   gSkipped, gGiven, gFlow>>
    /\ gCode' = <<>>
    /\ UNCHANGED otherThanGen

Reg_assign(expr, reg) == RegCalled(assign(Machine, expr, reg))

Reg_load(expr, reg) == RegCalled(load(Machine, expr, reg))

Reg_getreg == RegCalled(getreg(Machine).m)

RegNext ==
    \/ \E expr \in RegExprs(gNodes) \cup {0}, reg \in RegRegisters \cup {NoReg} :
          Reg_assign(expr, reg)
    \/ \E expr \in RegExprs(gNodes) \cup {0}, reg \in RegRegisters :
          Reg_load(expr, reg)
    \/ Reg_getreg

SpecReg == RegInit /\ [][RegNext]_vars

----------------------------------------------------------------------------
(* C21 *)

\* C21: after any sequence of assign, load and getreg calls, a register's
\* _node is an expression exactly when that expression's _register is the
\* register; so no expression is bound to two registers and no register to
\* two expressions.
C21_BindingConsistent ==
    \A r \in RegisterNames : \A e \in 1..Len(gNodes) :
        (gRegs[r] = e) <=> (gNodes[e].reg = r)

\* from full registers, two expressions have been spilled and are bound to
\* nothing, and the two expressions that were bound to nothing hold the
\* registers at the head of the pool
C21_Witness ==
    /\ gNodes[1].offset < 0 /\ gNodes[1].reg = NoReg
    /\ gNodes[2].offset < gNodes[1].offset /\ gNodes[2].reg = NoReg
    /\ gRegs[registers[1]] = Len(gNodes)
    /\ gRegs[registers[2]] = Len(gNodes) - 1
    /\ gRegs[registers[Len(registers)]] = Len(registers)

----------------------------------------------------------------------------
(* C22 *)

\* the instructions of code that come before its call, and after it
BeforeCall(code) ==
    LET at == CHOOSE i \in 1..Len(code) : code[i].op = "call"
    IN  SubSeq(code, 1, at - 1)
AfterCall(code) ==
    LET at == CHOOSE i \in 1..Len(code) : code[i].op = "call"
    IN  SubSeq(code, at + 1, Len(code))
\* the instructions of code with this opcode
Of(code, op) == SelectSeq(code, LAMBDA ins : ins.op = op)
RECURSIVE Bytes(_)
Bytes(code) == IF code = <<>> THEN 0 ELSE Head(code).val + Bytes(Tail(code))

\* C22: a call with at most six arguments writes no subq, pushq or addq on
\* %rsp; a call with n > 6 arguments pushes n - 6 of them after its subq,
\* the padding subtracted plus eight bytes for each push is a multiple of
\* 16, and the one addq after the call adds exactly that total.
C22_CallStackBalanced ==
    \A k \in 1..Len(gCode) :
        gCode[k].op = "call" =>
            LET n == gCode[k].val
                before == BeforeCall(gCode)
                after == AfterCall(gCode)
                pushes == Of(before, "pushq")
                total == Bytes(Of(before, "subq")) + SIZEOF_PARAM * Len(pushes)
            IN  IF n <= NUM_PARAM_REGS
                THEN before = <<>> /\ after = <<>>
                ELSE /\ Len(pushes) = n - NUM_PARAM_REGS
                     /\ \A i \in 1..Len(before) :
                            before[i].op = "subq" => i = 1
                     /\ Of(before, "addq") = <<>>
                     /\ total % STACK_ALIGNMENT = 0
                     /\ after = <<Ins("addq", "q", "rsp", total)>>

\* a call with seven arguments has pushed one of them after eight bytes of
\* padding, and reclaimed sixteen bytes
C22_Witness ==
    /\ Len(gCode) = 4
    /\ gCode[1] = Ins("subq", "q", "rsp", SIZEOF_PARAM)
    /\ gCode[2].op = "pushq"
    /\ gCode[3] = Ins("call", "", NoReg, NUM_PARAM_REGS + 1)
    /\ gCode[4] = Ins("addq", "q", "rsp", STACK_ALIGNMENT)
    /\ gRegs["rax"] = Len(gNodes)

----------------------------------------------------------------------------
(* C23 *)

\* the offset of the parameter at position i (from 1) when every
\* register-passed parameter takes size(type) bytes below the one before
RECURSIVE SlotBelow(_, _, _)
SlotBelow(symbols, i, promoted) ==
    IF i = 0 THEN 0
    ELSE SlotBelow(symbols, i - 1, promoted)
             - (IF promoted THEN TypeSize(TypePromote(symbols[i].type))
                ELSE TypeSize(symbols[i].type))

\* the parameters lie where the sizes put them, and the stores of the
\* prologue go there
ParametersLaidOut(promoted) ==
    LET symbols == aFrame.symbols
        n == Len(symbols)
    IN  /\ \A i \in 1..n :
              symbols[i].offset =
                  IF i > NUM_PARAM_REGS
                  THEN 2 * SIZEOF_REG + SIZEOF_PARAM * (i - NUM_PARAM_REGS - 1)
                  ELSE SlotBelow(symbols, i, promoted)
        /\ Len(aFrame.prologue) = Min(n, NUM_PARAM_REGS)
        /\ \A i \in 1..Len(aFrame.prologue) :
              aFrame.prologue[i] =
                  Ins("mov", suffix(TypeSize(symbols[i].type)), parameters[i],
                      IF i > NUM_PARAM_REGS THEN 0 ELSE SlotBelow(symbols, i, promoted))

\* C23: the parameter at position i >= 6 (from 0) has offset 16 + 8 * (i - 6);
\* the one at position i < 6 has the negative offset reached by subtracting
\* from 0, in order, the size of the promoted type of each parameter up to
\* it (four bytes for a char); and the prologue stores parameter register i,
\* in the width of the declared type, to that offset.
C23_ParameterOffsets == ParametersLaidOut(TRUE)

\* the statement with the size of the declared type of each parameter
C23_DeclaredSizes == ParametersLaidOut(FALSE)

\* seven char parameters: the sixth lies 24 bytes below the frame pointer
\* and is stored there from the low byte of r9, the seventh lies at 16
C23_Witness ==
    /\ Len(aFrame.symbols) = NUM_PARAM_REGS + 1
    /\ aFrame.symbols[1].type = Scalar("CHAR", 0)
    /\ aFrame.symbols[NUM_PARAM_REGS].offset = 0 - NUM_PARAM_REGS * SIZEOF_INT
    /\ aFrame.symbols[NUM_PARAM_REGS + 1].offset = 2 * SIZEOF_REG
    /\ aFrame.prologue[NUM_PARAM_REGS] =
           Ins("mov", "b", "r9", 0 - NUM_PARAM_REGS * SIZEOF_INT)

----------------------------------------------------------------------------
(* C24 *)

Arithmetic == {"checkMultiplicative", "checkAdd", "checkSubtract"}
\* the result type of arithmetic on operands of these numeric types
Extended(t1, t2) ==
    IF TypeEq(t1, longint) \/ TypeEq(t2, longint) THEN longint ELSE integer

\* C24: after `*`, `/`, `%`, `+` or `-` is checked on two operands of the
\* types char, int and long, both operands of the node built have the type
\* of the node, which is long if either operand given was long and int
\* otherwise, and nothing is reported; an int literal given beside a long
\* operand is replaced by a long literal of the same value, not by a Cast.
C24_CrossExtension ==
    (/\ cLast.rule \in Arithmetic
     /\ isNumeric(cLast.operands[1].type)
     /\ isNumeric(cLast.operands[2].type)) =>
        LET given == cLast.operands
            kids == cLast.expr.kids
            result == Extended(given[1].type, given[2].type)
        IN  /\ ~cLast.aborted /\ cLast.diag = <<>>
            /\ Len(kids) = 2
            /\ TypeEq(cLast.expr.type, result)
            /\ \A i \in 1..2 :
                  /\ TypeEq(kids[i].type, result)
                  /\ (/\ given[i].kind = "Number"
                      /\ TypeEq(given[i].type, integer)
                      /\ TypeEq(result, longint))
                         => (/\ kids[i].kind = "Number"
                             /\ kids[i].value = given[i].value)

\* an int literal was added to a long identifier: the Add has the long
\* literal and the identifier as its operands
C24_Witness ==
    /\ cLast.rule = "checkAdd"
    /\ cLast.operands[1] = Node("Number", integer, 3, NoName, <<>>)
    /\ cLast.operands[2] = Identifier("x", longint)
    /\ cLast.expr = Binary("Add", Number(3), Identifier("x", longint), longint)

----------------------------------------------------------------------------
(* SpecFlow: For::generate, If::generate and While::generate, with the      *)
(* statements inside them (generator.cpp)                                   *)

\* the code of a part of a statement, written by the generate() of the part
Part(name) == Ins(name, "", NoReg, 0)
\* the lines that name a label: its definition, and the jumps to it
Defined(label) == Ins("label", "", NoReg, label)
Jump(op, label) == Ins(op, "", NoReg, label)
\* the comment lines around the code of a statement
Banner(text) == Ins("#", text, NoReg, 0)

\* an Expression::test with ifTrue set
Expression_testTrue(label) ==
    <<Part("cond"), Ins("cmp", "", NoReg, 0), Jump("jne", label)>>

\* Expression::test(label, false): the code of the expression, the
\* comparison of its register with 0, and the jump taken when they are equal
Expression_test(label) ==
    <<Part("cond"), Ins("cmp", "", NoReg, 0), Jump("je", label)>>

\* a call of generate() on a For, an If or a While: its two Labels, the
\* part whose generate() it calls next and what it has written
Construct(kind, hasElse, phase, code) ==
    [kind |-> kind, hasElse |-> hasElse, first |-> TwoLabels(gLabels).first,
     second |-> TwoLabels(gLabels).second, phase |-> phase, code |-> code]

\* the call after the generate() of the part it was at has returned: what
\* it writes up to the next part, or to its end
Resumed(f) ==
    LET to(phase, code) == [f EXCEPT !.phase = phase, !.code = @ \o code]
    IN  IF f.kind = "For" /\ f.phase = "init"
        THEN to("body", <<Part("init"), Defined(f.first)>> \o Expression_test(f.second))
        ELSE IF f.kind = "For" /\ f.phase = "body"
        THEN to("incr", <<Part("body")>>)
        ELSE IF f.kind = "For"
        THEN to("done", <<Part("incr"), Jump("jmp", f.first), Defined(f.second),
                          Banner("END FOR")>>)
        ELSE IF f.kind = "While"
        THEN to("done", <<Part("body"), Jump("jmp", f.first), Defined(f.second),
                          Banner("END WHILE")>>)
        ELSE IF f.phase = "then" /\ f.hasElse
        THEN to("else", <<Part("then"), Jump("jmp", f.second), Defined(f.first)>>)
        ELSE IF f.phase = "then"
        THEN to("done", <<Part("then"), Defined(f.first), Banner("END IF")>>)
        ELSE to("done", <<Part("else"), Defined(f.second), Banner("END IF")>>)

FTop == gFlow[Len(gFlow)]

\* a statement of any class can be generated here: at the start of a body,
\* or as the body or a branch of the construct under way
StatementDue ==
    IF gFlow = <<>> THEN TRUE ELSE FTop.phase \in {"body", "then", "else"}

\* generate() is called on a construct: its Labels are constructed and it
\* writes up to the first of its parts
Entered(f) ==
    /\ StatementDue
    /\ gCount < MaxGenNodes
    /\ gFlow' = Append(gFlow, f)
    /\ gLabels' = TwoLabels(gLabels).counter
    /\ gGiven' = gGiven \o TwoLabels(gLabels).given
    /\ gCount' = gCount + 1
    /\ gCode' = <<>>
    /\ UNCHANGED <<gRegs, gNodes, gStack, gOpen, gOffset, stringMap, gOperands,
                   gData, gPhase, gExpect, gFuncs, gLow, gSet, gSkipped>>
    /\ UNCHANGED otherThanGen

For_generate == Entered(Construct("For", FALSE, "init", <<Banner("FOR")>>))

While_generate ==
    Entered(Construct("While", FALSE, "body",
                      <<Banner("WHILE"), Defined(TwoLabels(gLabels).first)>>
                          \o Expression_test(TwoLabels(gLabels).second)))

If_generate(hasElse) ==
    Entered(Construct("If", hasElse, "then",
                      <<Banner("IF")>> \o Expression_test(TwoLabels(gLabels).first)))

\* the generate() of a part that is no For, If or While returns
Statement_generate ==
    /\ gFlow # <<>>
    /\ FTop.phase # "done"
    /\ gFlow' = [gFlow EXCEPT ![Len(gFlow)] = Resumed(FTop)]
    /\ gCode' = <<>>
    /\ UNCHANGED <<gRegs, gNodes, gStack, gOpen, gOffset, gLabels, stringMap,
                   gOperands, gData, gPhase, gExpect, gCount, gFuncs, gLow, gSet,
                   gSkipped, gGiven>>
    /\ UNCHANGED otherThanGen

\* the generate() of a For, an If or a While returns, to the construct it
\* is a part of if there is one; what it wrote is kept
Construct_return ==
    /\ gFlow # <<>>
    /\ FTop.phase = "done"
    /\ gCode' = FTop.code
    /\ gFlow' = LET rest == SubSeq(gFlow, 1, Len(gFlow) - 1)
                IN  IF rest = <<>> THEN rest
                    ELSE [rest EXCEPT ![Len(rest)] = Resumed(rest[Len(rest)])]
    /\ UNCHANGED <<gRegs, gNodes, gStack, gOpen, gOffset, gLabels, stringMap,
                   gOperands, gData, gPhase, gExpect, gCount, gFuncs, gLow, gSet,
                   gSkipped, gGiven>>
    /\ UNCHANGED otherThanGen

FlowInit == GenIdle /\ TypeIdle /\ AllocIdle /\ ParseIdle /\ CheckIdle

FlowNext ==
    \/ For_generate
    \/ While_generate
    \/ \E hasElse \in BOOLEAN : If_generate(hasElse)
    \/ Statement_generate
    \/ Construct_return

SpecFlow == FlowInit /\ [][FlowNext]_vars

----------------------------------------------------------------------------
(* C25 *)

\* the code of a construct that has two labels loop and exit, or skip and
\* exit
ForCode(loop, exit) ==
    <<Banner("FOR"), Part("init"), Defined(loop), Part("cond"),
      Ins("cmp", "", NoReg, 0), Jump("je", exit), Part("body"), Part("incr"),
      Jump("jmp", loop), Defined(exit), Banner("END FOR")>>
IfElseCode(skip, exit) ==
    <<Banner("IF"), Part("cond"), Ins("cmp", "", NoReg, 0), Jump("je", skip),
      Part("then"), Jump("jmp", exit), Defined(skip), Part("else"),
      Defined(exit), Banner("END IF")>>

\* C25: what For::generate has written is the code of init, the loop label,
\* the code of cond with a jump to the exit label when it is zero, the body,
\* incr, a jump to the loop label and the exit label; what If::generate has
\* written for an if with an else is the code of the test with a jump to
\* the else label when it is zero, the first branch, a jump to the exit
\* label, the else label, the second branch and the exit label; and the two
\* labels are different.
C25_EmissionOrder ==
    /\ (gCode # <<>> /\ gCode[1] = Banner("FOR")) =>
           \E loop, exit \in 0..gLabels :
               loop # exit /\ gCode = ForCode(loop, exit)
    /\ (gCode # <<>> /\ gCode[1] = Banner("IF") /\ Of(gCode, "else") # <<>>) =>
           \E skip, exit \in 0..gLabels :
               skip # exit /\ gCode = IfElseCode(skip, exit)

\* a for whose body is another construct has been generated, after that
\* one was, which took the labels after those of the for
C25_Witness ==
    /\ gFlow = <<>>
    /\ gCode = ForCode(0, 1)
    /\ gLabels = 4
    /\ gCount = 2

----------------------------------------------------------------------------
(* C26 *)

\* C26: the load a Dereference writes has the suffix of the size of the
\* type pointed to (the size of the Dereference node), and the node is
\* bound to the register loaded.
C26_DereferenceWidth ==
    \A k \in 1..Len(gCode) :
        gCode[k].op = "mov" =>
            /\ gCode[k].suf = suffix(gCode[k].val)
            /\ gNodes[Len(gNodes)].reg = gCode[k].reg
            /\ gRegs[gCode[k].reg] = Len(gNodes)

----------------------------------------------------------------------------
(* C27 *)

\* C27: when Negate::generate has returned, the Negate node is bound to the
\* register its neg instruction was written on.
C27_NegateBoundWhereNegated ==
    \A k \in 1..Len(gCode) :
        gCode[k].op = "neg" =>
            /\ gNodes[Len(gNodes)].reg = gCode[k].reg
            /\ gRegs[gCode[k].reg] = Len(gNodes)

----------------------------------------------------------------------------
(* C28 *)

----------------------------------------------------------------------------
(* C29 *)

\* the symbols of the blocks under allocation, each block being inside the
\* one before; those of the body begin with the parameters
RECURSIVE ChainSymbols(_)
ChainSymbols(stack) ==
    IF stack = <<>> THEN <<>>
    ELSE ChainSymbols(SubSeq(stack, 1, Len(stack) - 1)) \o stack[Len(stack)].syms

\* the bytes from offset up to offset + size are all below the offset other
Below(offset, size, other) == offset + size <= other

\* C29: two symbols of one block, or of a block and a block around it (the
\* parameters included), never share a byte; and a slot that load spills a
\* register to lies below the bytes of every parameter and local of the
\* function and below every slot spilled to before.
C29_SlotsDisjoint ==
    /\ LET chain == ChainSymbols(aStack)
       IN  \A i, j \in 1..Len(chain) :
               i < j =>
                   \/ Below(chain[i].offset, TypeSize(chain[i].type), chain[j].offset)
                   \/ Below(chain[j].offset, TypeSize(chain[j].type), chain[i].offset)
    /\ \A k \in 1..Len(aSpills) :
           /\ \A sym \in aSymbols :
                  sym.scope # "global" =>
                      /\ Below(aSpills[k].offset, aSpills[k].size, sym.offset)
                      /\ aSpills[k].offset < sym.offset
           /\ \A j \in 1..(k - 1) :
                  Below(aSpills[k].offset, aSpills[k].size, aSpills[j].offset)

\* a function with a parameter, a local array and a nested block: while the
\* nested block is allocated the three symbols lie one below the other
C29_Witness ==
    /\ aPhase = "running"
    /\ Len(aStack) = 3
    /\ LET chain == ChainSymbols(aStack)
       IN  /\ Len(chain) = 3
           /\ chain[1].offset = 0 - SIZEOF_INT
           /\ chain[2].offset < chain[1].offset
           /\ chain[3].offset < chain[2].offset

----------------------------------------------------------------------------
(* C30 *)

\* C30: every Label constructed in the compilation has a number no other
\* has, the counter having counted them all through every function; so two
\* statements or && and || never have a label in common, the label of a
\* string operand is one constructed for a string, it is the label of no
\* statement or && or ||, and two strings of different content have
\* different labels.
C30_LabelsUnique ==
    /\ gLabels = Len(gGiven)
    /\ \A i, j \in 1..Len(gGiven) :
           i # j => gGiven[i].number # gGiven[j].number
    /\ \A i \in 1..Len(gOperands) :
           /\ \E k \in 1..Len(gGiven) :
                  gGiven[k] = [number |-> gOperands[i].label, use |-> "string"]
           /\ \A k \in 1..Len(gGiven) :
                  gGiven[k].use = "flow" => gGiven[k].number # gOperands[i].label
           /\ \A j \in 1..Len(gOperands) :
                  gOperands[i].content # gOperands[j].content
                      => gOperands[i].label # gOperands[j].label

\* in the second function: a string was an operand in the first, an && and
\* a second string followed it, and the labels used are 0, 2, 3 and 4
C30_Witness ==
    /\ gFuncs = 2
    /\ Len(gOperands) = 2
    /\ gOperands[1].fn = 1
    /\ gOperands[1].label = 0
    /\ gOperands[2].label = 4
    /\ gGiven = <<[number |-> 0, use |-> "string"], [number |-> 1, use |-> "map"],
                  [number |-> 2, use |-> "flow"], [number |-> 3, use |-> "flow"],
                  [number |-> 4, use |-> "string"], [number |-> 5, use |-> "map"]>>

====
